---- MODULE Spec2Model ----
(***************************************************************************)
(* Model of the RAG system's resilient generation client (AIClient, its    *)
(* file cache and retry loop) and of the SQLite document repository.       *)
(*                                                                         *)
(* Strings are sequences of one-character tokens; "NUL" stands for the     *)
(* byte 0x00 and " " for a white-space character.  The MD5 fingerprint is  *)
(* modelled by the byte string that is hashed (the hash is treated as      *)
(* injective on the bounded inputs).                                       *)
(***************************************************************************)
EXTENDS Integers, Sequences, FiniteSets, TLC

VARIABLES
    baseURLOk,   \* config: c.config.AI.BaseURL parses as a URL
    cache,       \* cacheDir: key -> file content, or NoFile
    cacheOp,     \* history: the cache operation of the last step and its outcome
    pc,          \* position of the GenerateResponse caller
    query,       \* local: the sanitized query
    cacheKey,    \* local: the call's fingerprint
    attempt,     \* local: loop counter
    lastErr,     \* local: lastErr
    metrics,     \* local: *RequestMetrics
    result,      \* returned (string, error)
    trace,       \* history: the outcomes of the running call's remote attempts
    slept,       \* history: the delays slept since the last remote attempt
    saves,       \* history: saveCachedResponse calls of the running call
    fts5Enabled, \* repository: the FTS5 module is available
    docs,        \* table documents: committed rows, in rowid order
    chunks,      \* table chunks: committed rows, in rowid order
    tx,          \* the open transaction and its uncommitted rows
    repoLog,     \* history: the last finished repository operation
    sessions,    \* concurrent SaveDocument callers: each one's transaction
    dbLock,      \* the caller whose transaction holds SQLite's write lock
    cacheMutex,  \* AIClient.cacheMutex: its writer and its readers
    chunks_fts,  \* the FTS5 table of the database file, and the rowids of chunks
    callerDeadline, \* the time the caller of GenerateResponse is willing to wait
    args,        \* arguments of a function under study
    ret          \* what the function returned for them

clientVars == <<baseURLOk, cache, cacheOp, pc, query, cacheKey, attempt,
                lastErr, metrics, result, trace, slept, saves>>
\* the variables of the studies that follow the two subsystems' own
otherVars == <<sessions, dbLock, cacheMutex, chunks_fts, callerDeadline, args, ret>>
repoVars == <<docs, chunks, tx, repoLog, fts5Enabled>>
vars == <<baseURLOk, cache, cacheOp, pc, query, cacheKey, attempt,
          lastErr, metrics, result, trace, slept, saves, docs, chunks, tx, repoLog, fts5Enabled, otherVars>>

----------------------------------------------------------------------------
(* Bounds of the model *)

\* longest answer content the remote sends
MaxContentLen == 2

----------------------------------------------------------------------------
(* Program constants *)

maxRetries == 3
retryDelay == 2
MaxQueryLen == 1000
KeyPrefixLen == 100
StatusOK == 200
StatusTooManyRequests == 429

----------------------------------------------------------------------------
(* Strings *)

NUL == "NUL"
IsSpace(ch) == ch \in {" ", "\n", "\t"}

RECURSIVE TrimLeft(_)
TrimLeft(s) ==
    IF s = <<>> THEN s
    ELSE IF IsSpace(Head(s)) THEN TrimLeft(Tail(s)) ELSE s

RECURSIVE TrimRight(_)
TrimRight(s) ==
    IF s = <<>> THEN s
    ELSE IF IsSpace(s[Len(s)]) THEN TrimRight(SubSeq(s, 1, Len(s) - 1)) ELSE s

\* strings.TrimSpace
TrimSpace(s) == TrimRight(TrimLeft(s))

\* strings.ReplaceAll(s, "\x00", "")
RECURSIVE RemoveNul(_)
RemoveNul(s) ==
    IF s = <<>> THEN s
    ELSE IF Head(s) = NUL THEN RemoveNul(Tail(s))
         ELSE <<Head(s)>> \o RemoveNul(Tail(s))

min(a, b) == IF a < b THEN a ELSE b

\* s[:n]
Prefix(s, n) == SubSeq(s, 1, n)

\* a sanitizer that trims and truncates but leaves the null bytes
sanitizeInputKeepNul(in, maxLength) ==
    LET cleaned == TrimSpace(in)
    IN  IF maxLength > 0 /\ Len(cleaned) > maxLength
        THEN Prefix(cleaned, maxLength)
        ELSE cleaned

sanitizeInput(in, maxLength) ==
    LET cleaned == RemoveNul(TrimSpace(in))
    IN  IF maxLength > 0 /\ Len(cleaned) > maxLength
        THEN Prefix(cleaned, maxLength)
        ELSE cleaned

\* a key made of the whole content of every fragment
RECURSIVE keyDataWhole(_, _)
keyDataWhole(q, cs) ==
    IF cs = <<>> THEN q
    ELSE keyDataWhole(q \o Head(cs).ID \o Head(cs).Content, Tail(cs))

\* the byte string handed to md5.Sum
RECURSIVE keyData(_, _)
keyData(q, cs) ==
    IF cs = <<>> THEN q
    ELSE keyData(q \o Head(cs).ID
                   \o Prefix(Head(cs).Content, min(KeyPrefixLen, Len(Head(cs).Content))),
                 Tail(cs))

getCacheKey(q, cs) == keyData(q, cs)

----------------------------------------------------------------------------
(* The file cache *)

NoFile == [exists |-> FALSE, data |-> <<>>]
File(d) == [exists |-> TRUE, data |-> d]

\* a lookup that never finds the file
getCachedResponseMiss(c, key) == [response |-> <<>>, found |-> FALSE]

\* a lookup that returns the file as it is
getCachedResponseRaw(c, key) ==
    IF ~c[key].exists THEN [response |-> <<>>, found |-> FALSE]
    ELSE [response |-> c[key].data, found |-> TRUE]

\* lines 182-199: the file's content without surrounding white space; a missing
\* or blank file is "not found"
getCachedResponse(c, key) ==
    IF ~c[key].exists THEN [response |-> <<>>, found |-> FALSE]
    ELSE LET response == TrimSpace(c[key].data)
         IN  IF response = <<>> THEN [response |-> <<>>, found |-> FALSE]
             ELSE [response |-> response, found |-> TRUE]

\* os.WriteFile: on success the file holds the response; on failure the file
\* is untouched (open failed) or holds a prefix of it (write or close failed
\* after O_TRUNC).  wr = Len(response) + 1 stands for the failed open.
saveCachedResponse(c, key, response, ok, wr) ==
    IF ok THEN [c EXCEPT ![key] = File(response)]
    ELSE IF wr > Len(response) THEN c
    ELSE [c EXCEPT ![key] = File(Prefix(response, wr))]

saveErr(ok) == IF ok THEN "nil" ELSE "write"

\* filepath.Glob(cacheDir/*.txt)
cacheFiles(c) == {k \in DOMAIN c : c[k].exists}

\* a clear whose glob matches no file
clearFilesNone(c, failed) == c

\* os.Remove of every file found; a removal in `failed` returns an error,
\* which is logged, and the loop goes on
clearFiles(c, failed) ==
    [k \in DOMAIN c |-> IF k \in failed THEN c[k] ELSE NoFile]

----------------------------------------------------------------------------
(* The remote service *)

Statuses == {200, 204, 400, 404, 429, 500, 503}

RECURSIVE StringsUpTo(_, _)
StringsUpTo(alphabet, n) ==
    IF n = 0 THEN {<<>>}
    ELSE LET shorter == StringsUpTo(alphabet, n - 1)
         IN  shorter \cup {<<ch>> \o s : ch \in alphabet, s \in {t \in shorter : Len(t) = n - 1}}

Contents == StringsUpTo({" ", "a"}, MaxContentLen)

\* A response body: not JSON at all, JSON of another shape, or an object with
\* an optional error message and a list of choices (only the first is read).
Bodies ==
    {[json |-> j, errMsg |-> FALSE, choices |-> <<>>] : j \in {"invalid", "shape"}}
    \cup {[json |-> "ok", errMsg |-> e, choices |-> ch] :
            e \in BOOLEAN, ch \in {<<>>} \cup {<<c>> : c \in Contents}}

\* the Retry-After header: absent, a number of seconds, or unparseable
RetryAfters == {"", "1", "date"}
RetryAfterSecs(h) == IF h = "1" THEN 1 ELSE 0
RetryAfterParses(h) == h = "1"

\* a parse that returns the content as the service sent it
parseAIResponseNoTrim(body) ==
    IF body.json = "invalid" THEN [content |-> <<>>, err |-> "invalid JSON"]
    ELSE IF body.json = "shape" THEN [content |-> <<>>, err |-> "JSON parse"]
    ELSE IF body.errMsg THEN [content |-> <<>>, err |-> "API error"]
    ELSE IF Len(body.choices) = 0 THEN [content |-> <<>>, err |-> "no choices"]
    ELSE IF TrimSpace(body.choices[1]) = <<>> THEN [content |-> <<>>, err |-> "empty content"]
    ELSE [content |-> body.choices[1], err |-> "nil"]

\* lines 395-433
parseAIResponse(body) ==
    IF body.json = "invalid" THEN [content |-> <<>>, err |-> "invalid JSON"]
    ELSE IF body.json = "shape" THEN [content |-> <<>>, err |-> "JSON parse"]
    ELSE IF body.errMsg THEN [content |-> <<>>, err |-> "API error"]
    ELSE IF Len(body.choices) = 0 THEN [content |-> <<>>, err |-> "no choices"]
    ELSE LET content == TrimSpace(body.choices[1])
         IN  IF content = <<>> THEN [content |-> <<>>, err |-> "empty content"]
             ELSE [content |-> content, err |-> "nil"]

----------------------------------------------------------------------------
(* Callers' inputs *)

chunkB == [ID |-> <<"b">>, Content |-> <<"NUL">>]

Inputs ==
    { [query |-> <<"a">>, chunks |-> <<>>],
      [query |-> <<" ", "a", "NUL">>, chunks |-> <<>>],
      [query |-> <<"a">>, chunks |-> <<chunkB>>] }

Keys == {getCacheKey(sanitizeInput(in.query, MaxQueryLen), in.chunks) : in \in Inputs}

----------------------------------------------------------------------------
(* AIClient.GenerateResponse *)

\* RequestMetrics without Duration and Status, which are only logged
NoMetrics == [Retries |-> 0, FromCache |-> FALSE, Error |-> "nil"]
NoResult == [answer |-> <<>>, err |-> "nil"]
NoOp == [op |-> "none", failed |-> 0, err |-> "nil"]

SleepEv(why, secs) == [why |-> why, secs |-> secs]

RECURSIVE Pow2(_)
Pow2(n) == IF n = 0 THEN 1 ELSE 2 * Pow2(n - 1)

\* a backoff that grows by the base delay with every retry
backoffLinear(n) == retryDelay * n

\* c.retryDelay * time.Duration(1<<uint(attempt-1)), in seconds
backoffDelay(n) == retryDelay * Pow2(n - 1)

InitClient ==
    /\ baseURLOk \in BOOLEAN
    /\ cache = [k \in Keys |-> NoFile]
    /\ cacheOp = NoOp
    /\ pc = "idle"
    /\ query = <<>>
    /\ cacheKey = <<>>
    /\ attempt = 0
    /\ lastErr = "nil"
    /\ metrics = NoMetrics
    /\ result = NoResult
    /\ trace = <<>>
    /\ slept = <<>>
    /\ saves = <<>>

\* lines 235-249: sanitize, fingerprint, cache lookup; on a miss the prompt
\* and the payload are built and the retry loop is entered
GenStart(in) ==
    /\ pc = "idle"
    /\ LET q == sanitizeInput(in.query, MaxQueryLen)
           key == getCacheKey(q, in.chunks)
           got == getCachedResponse(cache, key)
       IN  /\ cacheOp' = [NoOp EXCEPT !.op = "get"]
           /\ query' = q
           /\ cacheKey' = key
           /\ IF got.found
              THEN /\ metrics' = [NoMetrics EXCEPT !.FromCache = TRUE]
                   /\ result' = [answer |-> got.response, err |-> "nil"]
                   /\ pc' = "done"
              ELSE /\ metrics' = NoMetrics
                   /\ result' = NoResult
                   /\ pc' = "loop"
    /\ attempt' = 0
    /\ lastErr' = "nil"
    /\ trace' = <<>>
    /\ slept' = <<>>
    /\ saves' = <<>>
    /\ UNCHANGED <<baseURLOk, cache, docs, chunks, tx, repoLog, fts5Enabled, otherVars>>

\* a budget check that gives up one attempt early
mayRetryOneShort(n) == n < maxRetries - 1

\* `if attempt < c.maxRetries` (lines 309, 323, 335, 361, 371)
mayRetry(n) == n < maxRetries

\* a save error that is returned to the caller instead of being logged
resultAfterSaveStrict(response, saveError) ==
    IF saveError = "nil"
    THEN [answer |-> response, err |-> "nil"]
    ELSE [answer |-> <<>>, err |-> saveError]

\* lines 341-348: the saved answer is returned whatever the save returned
resultAfterSave(response, saveError) == [answer |-> response, err |-> "nil"]

\* a `continue` of a loop without its post statement attempt++
ContinueSame(err) ==
    /\ lastErr' = err
    /\ attempt' = attempt
    /\ pc' = "loop"
    /\ UNCHANGED result

\* a `continue` that counts the failed attempt twice
ContinueTwice(err) ==
    /\ lastErr' = err
    /\ attempt' = attempt + 2
    /\ pc' = "loop"
    /\ UNCHANGED result

\* `continue`
Continue(err) ==
    /\ lastErr' = err
    /\ attempt' = attempt + 1
    /\ pc' = "loop"
    /\ UNCHANGED result

\* a `break` that leaves lastErr as the previous attempt set it
BreakStale(err, m) ==
    /\ lastErr' = lastErr
    /\ metrics' = [m EXCEPT !.Error = lastErr]
    /\ result' = [answer |-> <<>>, err |-> lastErr]
    /\ pc' = "done"
    /\ UNCHANGED attempt

\* `break`, then lines 388-391
Break(err, m) ==
    /\ lastErr' = err
    /\ metrics' = [m EXCEPT !.Error = err]
    /\ result' = [answer |-> <<>>, err |-> err]
    /\ pc' = "done"
    /\ UNCHANGED attempt

\* a retry rule that never gives up
RetryAlways(err, m) == Continue(err) /\ UNCHANGED metrics

\* the retry rule shared by transport, read and parse errors
RetryOrBreak(err, m) ==
    IF mayRetry(attempt)
    THEN Continue(err) /\ UNCHANGED metrics
    ELSE Break(err, m)

\* lines 280-298: the head of one iteration: record the retry count, sleep the
\* backoff, build the request.  A request that cannot be built (BaseURL does not
\* parse) continues with the next iteration without any check of the budget.
LoopIter ==
    /\ pc = "loop"
    /\ attempt <= maxRetries
    /\ slept' = IF attempt > 0
                THEN Append(slept, SleepEv("backoff", backoffDelay(attempt)))
                ELSE slept
    /\ metrics' = [metrics EXCEPT !.Retries = attempt]
    /\ IF baseURLOk
       THEN /\ pc' = "attempt"
            /\ UNCHANGED <<attempt, lastErr>>
       ELSE /\ pc' = "loop"
            /\ attempt' = attempt + 1
            /\ lastErr' = "request"
    /\ cacheOp' = NoOp
    /\ UNCHANGED <<baseURLOk, cache, query, cacheKey, result, trace,
                   saves, docs, chunks, tx, repoLog, fts5Enabled, otherVars>>

\* the loop condition fails: lines 388-391
LoopExit ==
    /\ pc = "loop"
    /\ attempt > maxRetries
    /\ metrics' = [metrics EXCEPT !.Error = lastErr]
    /\ result' = [answer |-> <<>>, err |-> lastErr]
    /\ pc' = "done"
    /\ cacheOp' = NoOp
    /\ UNCHANGED <<baseURLOk, cache, query, cacheKey, attempt,
                   lastErr, trace, slept, saves, docs, chunks, tx, repoLog, fts5Enabled, otherVars>>

\* lines 303-313: c.client.Do fails (connection failure, timeout)
DoError ==
    /\ pc = "attempt"
    /\ trace' = Append(trace, "transport")
    /\ slept' = <<>>
    /\ RetryOrBreak("transport", metrics)
    /\ cacheOp' = NoOp
    /\ UNCHANGED <<baseURLOk, cache, query, cacheKey, saves,
                   docs, chunks, tx, repoLog, fts5Enabled, otherVars>>

\* lines 315-327: a response arrived but its body cannot be read
ReadError ==
    /\ pc = "attempt"
    /\ trace' = Append(trace, "read")
    /\ slept' = <<>>
    /\ RetryOrBreak("read", metrics)
    /\ cacheOp' = NoOp
    /\ UNCHANGED <<baseURLOk, cache, query, cacheKey, saves,
                   docs, chunks, tx, repoLog, fts5Enabled, otherVars>>

\* lines 330-339: HTTP 200 whose body does not give an answer
Resp200Bad(body) ==
    /\ pc = "attempt"
    /\ parseAIResponse(body).err # "nil"
    /\ trace' = Append(trace, "parse")
    /\ slept' = <<>>
    /\ RetryOrBreak(parseAIResponse(body).err, metrics)
    /\ cacheOp' = NoOp
    /\ UNCHANGED <<baseURLOk, cache, query, cacheKey, saves,
                   docs, chunks, tx, repoLog, fts5Enabled, otherVars>>

\* lines 330-348: HTTP 200 with an answer: save it to the cache (a failed save
\* is logged) and return it
Resp200(body, ok, wr) ==
    /\ pc = "attempt"
    /\ parseAIResponse(body).err = "nil"
    /\ LET response == parseAIResponse(body).content
       IN  /\ wr \in 0 .. Len(response) + 1
           /\ ok => wr = Len(response)
           /\ cache' = saveCachedResponse(cache, cacheKey, response, ok, wr)
           /\ cacheOp' = [NoOp EXCEPT !.op = "put", !.err = saveErr(ok)]
           /\ saves' = Append(saves, [key |-> cacheKey, value |-> response, ok |-> ok])
           /\ result' = resultAfterSave(response, saveErr(ok))
    /\ trace' = Append(trace, "ok")
    /\ slept' = <<>>
    /\ pc' = "done"
    /\ UNCHANGED <<baseURLOk, query, cacheKey, attempt, lastErr, metrics,
                   docs, chunks, tx, repoLog, fts5Enabled, otherVars>>

\* lines 350-366: HTTP 429: sleep the Retry-After delay when the header parses,
\* then retry while attempts remain
Resp429(retryAfter) ==
    /\ pc = "attempt"
    /\ trace' = Append(trace, "429")
    /\ slept' = IF RetryAfterParses(retryAfter)
                THEN <<SleepEv("retry-after", RetryAfterSecs(retryAfter))>>
                ELSE <<>>
    /\ IF mayRetry(attempt)
       THEN Continue("HTTP 429") /\ UNCHANGED metrics
       ELSE Break("HTTP 429 after all attempts", metrics)
    /\ cacheOp' = NoOp
    /\ UNCHANGED <<baseURLOk, cache, query, cacheKey, saves,
                   docs, chunks, tx, repoLog, fts5Enabled, otherVars>>

\* lines 368-377: HTTP >= 500
Resp5xx(status) ==
    /\ pc = "attempt"
    /\ status >= 500
    /\ trace' = Append(trace, "5xx")
    /\ slept' = <<>>
    /\ IF mayRetry(attempt)
       THEN Continue("HTTP 5xx") /\ UNCHANGED metrics
       ELSE Break("HTTP 5xx after all attempts", metrics)
    /\ cacheOp' = NoOp
    /\ UNCHANGED <<baseURLOk, cache, query, cacheKey, saves,
                   docs, chunks, tx, repoLog, fts5Enabled, otherVars>>

\* every other status handled by the retry rule of the transport errors
RespOtherRetried(status) ==
    /\ pc = "attempt"
    /\ status # StatusOK
    /\ status # StatusTooManyRequests
    /\ status < 500
    /\ trace' = Append(trace, "other")
    /\ slept' = <<>>
    /\ RetryOrBreak("HTTP API error", metrics)
    /\ cacheOp' = NoOp
    /\ UNCHANGED <<baseURLOk, cache, query, cacheKey, saves,
                   docs, chunks, tx, repoLog, fts5Enabled, otherVars>>

\* lines 379-385: every other status: no retry
RespOther(status) ==
    /\ pc = "attempt"
    /\ status # StatusOK
    /\ status # StatusTooManyRequests
    /\ status < 500
    /\ trace' = Append(trace, "other")
    /\ slept' = <<>>
    /\ Break("HTTP API error", metrics)
    /\ cacheOp' = NoOp
    /\ UNCHANGED <<baseURLOk, cache, query, cacheKey, saves,
                   docs, chunks, tx, repoLog, fts5Enabled, otherVars>>

\* the caller takes the result; the call's locals die
Return ==
    /\ pc = "done"
    /\ pc' = "idle"
    /\ query' = <<>>
    /\ cacheKey' = <<>>
    /\ attempt' = 0
    /\ lastErr' = "nil"
    /\ metrics' = NoMetrics
    /\ result' = NoResult
    /\ trace' = <<>>
    /\ slept' = <<>>
    /\ saves' = <<>>
    /\ cacheOp' = NoOp
    /\ UNCHANGED <<baseURLOk, cache, docs, chunks, tx, repoLog, fts5Enabled, otherVars>>

\* lines 464-481, called by another goroutine at any time
ClearCache(failed) ==
    /\ failed \subseteq cacheFiles(cache)
    /\ cache' = clearFiles(cache, failed)
    /\ cacheOp' = [op |-> "clear", failed |-> Cardinality(failed), err |-> "nil"]
    /\ UNCHANGED <<baseURLOk, pc, query, cacheKey, attempt, lastErr,
                   metrics, result, trace, slept, saves,
                   docs, chunks, tx, repoLog, fts5Enabled, otherVars>>

Next ==
    \/ \E in \in Inputs : GenStart(in)
    \/ LoopIter
    \/ LoopExit
    \/ DoError
    \/ ReadError
    \/ \E b \in Bodies : Resp200Bad(b)
    \/ \E b \in Bodies, ok \in BOOLEAN, wr \in 0 .. MaxContentLen + 1 : Resp200(b, ok, wr)
    \/ \E h \in RetryAfters : Resp429(h)
    \/ \E st \in Statuses : Resp5xx(st)
    \/ \E st \in Statuses : RespOther(st)
    \/ Return
    \/ \E failed \in SUBSET Keys : ClearCache(failed)

\* the steps of a running call: the loop head and exit, and an attempt that
\* returns with one of its outcomes
CallStep ==
    \/ LoopIter
    \/ LoopExit
    \/ DoError
    \/ ReadError
    \/ \E b \in Bodies : Resp200Bad(b)
    \/ \E b \in Bodies, ok \in BOOLEAN, wr \in 0 .. MaxContentLen + 1 : Resp200(b, ok, wr)
    \/ \E h \in RetryAfters : Resp429(h)
    \/ \E st \in Statuses : Resp5xx(st)
    \/ \E st \in Statuses : RespOther(st)

----------------------------------------------------------------------------
(* GenerateResponse and a caller that waits only so long *)

\* the timeout of the configuration in seconds (NewAIClient accepts any
\* positive number)
TimeoutSecs == 30

\* the seconds a caller is willing to wait for an answer
Deadlines == {5, 60}

\* line 291: context.WithTimeout(context.Background(), TimeoutSecs): the
\* context of an attempt has no parent of the caller's
attemptTimeout(deadline) == TimeoutSecs

\* the seconds of backoff slept before attempt n starts (lines 283-288)
RECURSIVE backoffTotal(_)
backoffTotal(n) == IF n = 0 THEN 0 ELSE backoffTotal(n - 1) + backoffDelay(n)

\* the calls that end with transport errors and 5xx statuses
NextDeadline ==
    \/ \E in \in Inputs : GenStart(in)
    \/ LoopIter
    \/ LoopExit
    \/ DoError
    \/ \E st \in Statuses : Resp5xx(st)
    \/ Return

----------------------------------------------------------------------------
(* SQLiteDocumentRepository *)

ChunkSize == 500

\* a splitter for which a space is no place to cut
isBreakPointNoSpace(r) == r \in {".", "!", "?", ";", ":", ","}

isBreakPoint(r) == r \in {".", "!", "?", ";", ":", ",", " ", "\n", "\t"}

\* a cut at the first break character instead of the last
cutPointFirst(text, chunkSize) ==
    LET breaks == {e \in 1 .. chunkSize : isBreakPoint(text[e + 1])}
    IN  IF breaks = {} THEN chunkSize
        ELSE CHOOSE e \in breaks : \A f \in breaks : e <= f

\* a cut behind the break character instead of in front of it
cutPointBehind(text, chunkSize) ==
    LET breaks == {e \in 1 .. chunkSize : isBreakPoint(text[e + 1])}
    IN  IF breaks = {} THEN chunkSize
        ELSE (CHOOSE e \in breaks : \A f \in breaks : f <= e) + 1

\* lines 698-706: the cut position in a text longer than chunkSize.  The Go
\* loop reads text[end] for end = chunkSize down to 1 (0-based), which is the
\* element end + 1 of the sequence.
cutPoint(text, chunkSize) ==
    LET breaks == {e \in 1 .. chunkSize : isBreakPoint(text[e + 1])}
    IN  IF breaks = {} THEN chunkSize
        ELSE CHOOSE e \in breaks : \A f \in breaks : f <= e

RECURSIVE splitIntoChunks(_, _)
splitIntoChunks(text, chunkSize) ==
    IF Len(text) = 0 THEN <<>>
    ELSE IF Len(text) <= chunkSize THEN <<text>>
    ELSE LET end == cutPoint(text, chunkSize)
         IN  <<Prefix(text, end)>>
             \o splitIntoChunks(SubSeq(text, end + 1, Len(text)), chunkSize)

\* fmt.Sprintf("%s_chunk_%d", doc.ID, i): the pair determines the string
chunkID(docID, i) == <<docID, i>>

DocRow(doc) == [id |-> doc.ID, title |-> doc.Title, content |-> doc.Content]
ChunkRow(docID, i, text) == [id |-> chunkID(docID, i), document_id |-> docID, content |-> text]

\* a table without the PRIMARY KEY constraint
HasKeyNever(rows, id) == FALSE

\* lines 548-559: id TEXT PRIMARY KEY, of documents and of chunks
HasKey(rows, id) == \E i \in 1 .. Len(rows) : rows[i].id = id

\* INSERT INTO documents / INSERT INTO chunks
insertRow(rows, row) == Append(rows, row)

\* a delete that leaves the fragments in place
deleteChunksOfNone(rows, id) == rows

\* DELETE FROM chunks WHERE document_id=?
RECURSIVE deleteChunksOf(_, _)
deleteChunksOf(rows, id) ==
    IF rows = <<>> THEN <<>>
    ELSE IF Head(rows).document_id = id THEN deleteChunksOf(Tail(rows), id)
         ELSE <<Head(rows)>> \o deleteChunksOf(Tail(rows), id)

\* DELETE FROM documents WHERE id=?
RECURSIVE deleteDocument(_, _)
deleteDocument(rows, id) ==
    IF rows = <<>> THEN <<>>
    ELSE IF Head(rows).id = id THEN deleteDocument(Tail(rows), id)
         ELSE <<Head(rows)>> \o deleteDocument(Tail(rows), id)

\* GetAllDocuments: CreatedAt is scanned into a string and never set
GetAllDocuments(rows) ==
    [i \in 1 .. Len(rows) |->
        [ID |-> rows[i].id, Title |-> rows[i].title, Content |-> rows[i].content,
         CreatedAt |-> 0]]

\* a query without its LIMIT
limitRowsAll(rows, limit) == rows

\* SELECT ... FROM chunks LIMIT ?: a negative limit means no limit
limitRows(rows, limit) ==
    IF limit < 0 \/ limit >= Len(rows) THEN rows ELSE Prefix(rows, limit)

\* similarity values are kept as tenths
NeutralFTS5 == 5

\* FindRelevantChunks for an empty or white-space query (lines 768-790 with
\* FTS5, lines 871-873 and 904-917 without): the score is 0.5 with FTS5 and
\* calculateSimpleSimilarity's 0 (no query words) without
emptyQuerySimilarity(fts5) == IF fts5 THEN NeutralFTS5 ELSE 0

findRelevantEmpty(fts5, rows, limit, threshold) ==
    LET sim == emptyQuerySimilarity(fts5)
        got == limitRows(rows, limit)
    IN  IF threshold <= 0 \/ sim >= threshold
        THEN [i \in 1 .. Len(got) |->
                [ID |-> got[i].id, DocumentID |-> got[i].document_id,
                 Content |-> got[i].content, Similarity |-> sim]]
        ELSE <<>>

(* Callers' documents *)

\* how far the longest document exceeds one chunk
Overflow == 1

LongText == [i \in 1 .. ChunkSize + Overflow |-> IF i = ChunkSize THEN " " ELSE "x"]

DocIDs == {"d1", "d2"}
DocContents == {<<>>, <<"x">>, LongText}
Documents == {[ID |-> id, Title |-> <<"t">>, Content |-> c, CreatedAt |-> 1] :
                id \in DocIDs, c \in DocContents}

NoDoc == [ID |-> "", Title |-> <<>>, Content |-> <<>>, CreatedAt |-> 0]
NoTx == [op |-> "none", step |-> "none", doc |-> NoDoc, wdocs |-> <<>>,
         wchunks |-> <<>>, todo |-> <<>>, n |-> 0]
NoLog == [op |-> "none", doc |-> NoDoc, err |-> "nil", rows |-> 0]

InitRepo ==
    /\ fts5Enabled \in BOOLEAN
    /\ docs = <<>>
    /\ chunks = <<>>
    /\ tx = NoTx
    /\ repoLog = NoLog

\* an operation ends: the deferred tx.Rollback() discards an open transaction
Finish(op, doc, err) ==
    /\ tx' = NoTx
    /\ repoLog' = [op |-> op, doc |-> doc, err |-> err,
                    rows |-> IF err # "nil" THEN 0
                             ELSE IF op = "save" THEN Len(tx.wchunks) - Len(chunks)
                             ELSE Len(chunks) - Len(tx.wchunks)]

\* lines 643-648: r.db.Begin()
SaveBegin(doc, ok) ==
    /\ tx.op = "none"
    /\ IF ok
       THEN /\ tx' = [NoTx EXCEPT !.op = "save", !.step = "document", !.doc = doc,
                                  !.wdocs = docs, !.wchunks = chunks]
            /\ UNCHANGED repoLog
       ELSE Finish("save", doc, "begin")
    /\ UNCHANGED <<docs, chunks, fts5Enabled>>
    /\ UNCHANGED <<clientVars, otherVars>>

\* an insert outside the transaction: the document row is visible at once
SaveInsertDocumentAutocommit(ok) ==
    /\ tx.op = "save"
    /\ tx.step = "document"
    /\ IF ok /\ ~HasKey(tx.wdocs, tx.doc.ID)
       THEN /\ tx' = [tx EXCEPT !.step = "chunks",
                                !.wdocs = insertRow(tx.wdocs, DocRow(tx.doc)),
                                !.todo = splitIntoChunks(tx.doc.Content, ChunkSize)]
            /\ docs' = insertRow(docs, DocRow(tx.doc))
            /\ UNCHANGED repoLog
       ELSE /\ Finish("save", tx.doc, "insert document")
            /\ UNCHANGED docs
    /\ UNCHANGED <<chunks, fts5Enabled>>
    /\ UNCHANGED <<clientVars, otherVars>>

\* an INSERT OR REPLACE INTO documents: a second save overwrites the row
SaveInsertDocumentReplace(ok) ==
    /\ tx.op = "save"
    /\ tx.step = "document"
    /\ IF ok
       THEN /\ tx' = [tx EXCEPT !.step = "chunks",
                                !.wdocs = insertRow(deleteDocument(tx.wdocs, tx.doc.ID),
                                                    DocRow(tx.doc)),
                                !.todo = splitIntoChunks(tx.doc.Content, ChunkSize)]
            /\ UNCHANGED repoLog
       ELSE Finish("save", tx.doc, "insert document")
    /\ UNCHANGED <<docs, chunks, fts5Enabled>>
    /\ UNCHANGED <<clientVars, otherVars>>

\* lines 650-663: insert the document row, then split the content
SaveInsertDocument(ok) ==
    /\ tx.op = "save"
    /\ tx.step = "document"
    /\ IF ok /\ ~HasKey(tx.wdocs, tx.doc.ID)
       THEN /\ tx' = [tx EXCEPT !.step = "chunks",
                                !.wdocs = insertRow(tx.wdocs, DocRow(tx.doc)),
                                !.todo = splitIntoChunks(tx.doc.Content, ChunkSize)]
            /\ UNCHANGED repoLog
       ELSE Finish("save", tx.doc, "insert document")
    /\ UNCHANGED <<docs, chunks, fts5Enabled>>
    /\ UNCHANGED <<clientVars, otherVars>>

\* lines 665-677: one iteration of the loop over the fragments
SaveInsertChunk(ok) ==
    /\ tx.op = "save"
    /\ tx.step = "chunks"
    /\ tx.todo # <<>>
    /\ IF ok /\ ~HasKey(tx.wchunks, chunkID(tx.doc.ID, tx.n))
       THEN /\ tx' = [tx EXCEPT !.wchunks = insertRow(tx.wchunks,
                                              ChunkRow(tx.doc.ID, tx.n, Head(tx.todo))),
                                !.todo = Tail(tx.todo),
                                !.n = tx.n + 1]
            /\ UNCHANGED repoLog
       ELSE Finish("save", tx.doc, "insert chunk")
    /\ UNCHANGED <<docs, chunks, fts5Enabled>>
    /\ UNCHANGED <<clientVars, otherVars>>

\* lines 679-684: tx.Commit()
SaveCommit(ok) ==
    /\ tx.op = "save"
    /\ tx.step = "chunks"
    /\ tx.todo = <<>>
    /\ IF ok
       THEN /\ docs' = tx.wdocs
            /\ chunks' = tx.wchunks
            /\ Finish("save", tx.doc, "nil")
       ELSE /\ Finish("save", tx.doc, "commit")
            /\ UNCHANGED <<docs, chunks>>
    /\ UNCHANGED fts5Enabled
    /\ UNCHANGED <<clientVars, otherVars>>

\* lines 965-970
DeleteBegin(id, ok) ==
    /\ tx.op = "none"
    /\ IF ok
       THEN /\ tx' = [NoTx EXCEPT !.op = "delete", !.step = "chunks",
                                  !.doc = [NoDoc EXCEPT !.ID = id],
                                  !.wdocs = docs, !.wchunks = chunks]
            /\ UNCHANGED repoLog
       ELSE Finish("delete", [NoDoc EXCEPT !.ID = id], "begin")
    /\ UNCHANGED <<docs, chunks, fts5Enabled>>
    /\ UNCHANGED <<clientVars, otherVars>>

\* lines 972-976
DeleteChunks(ok) ==
    /\ tx.op = "delete"
    /\ tx.step = "chunks"
    /\ IF ok
       THEN /\ tx' = [tx EXCEPT !.step = "document",
                                !.wchunks = deleteChunksOf(tx.wchunks, tx.doc.ID)]
            /\ UNCHANGED repoLog
       ELSE Finish("delete", tx.doc, "delete chunks")
    /\ UNCHANGED <<docs, chunks, fts5Enabled>>
    /\ UNCHANGED <<clientVars, otherVars>>

\* a delete that reports an id it did not find
DeleteDocStrict(ok) ==
    /\ tx.op = "delete"
    /\ tx.step = "document"
    /\ IF ok /\ HasKey(tx.wdocs, tx.doc.ID)
       THEN /\ tx' = [tx EXCEPT !.step = "commit",
                                !.wdocs = deleteDocument(tx.wdocs, tx.doc.ID)]
            /\ UNCHANGED repoLog
       ELSE Finish("delete", tx.doc, "delete document")
    /\ UNCHANGED <<docs, chunks, fts5Enabled>>
    /\ UNCHANGED <<clientVars, otherVars>>

\* lines 978-982
DeleteDoc(ok) ==
    /\ tx.op = "delete"
    /\ tx.step = "document"
    /\ IF ok
       THEN /\ tx' = [tx EXCEPT !.step = "commit",
                                !.wdocs = deleteDocument(tx.wdocs, tx.doc.ID)]
            /\ UNCHANGED repoLog
       ELSE Finish("delete", tx.doc, "delete document")
    /\ UNCHANGED <<docs, chunks, fts5Enabled>>
    /\ UNCHANGED <<clientVars, otherVars>>

\* lines 984-989
DeleteCommit(ok) ==
    /\ tx.op = "delete"
    /\ tx.step = "commit"
    /\ IF ok
       THEN /\ docs' = tx.wdocs
            /\ chunks' = tx.wchunks
            /\ Finish("delete", tx.doc, "nil")
       ELSE /\ Finish("delete", tx.doc, "commit")
            /\ UNCHANGED <<docs, chunks>>
    /\ UNCHANGED fts5Enabled
    /\ UNCHANGED <<clientVars, otherVars>>

NextRepo ==
    \/ \E doc \in Documents, ok \in BOOLEAN : SaveBegin(doc, ok)
    \/ \E ok \in BOOLEAN : SaveInsertDocument(ok)
    \/ \E ok \in BOOLEAN : SaveInsertChunk(ok)
    \/ \E ok \in BOOLEAN : SaveCommit(ok)
    \/ \E id \in DocIDs, ok \in BOOLEAN : DeleteBegin(id, ok)
    \/ \E ok \in BOOLEAN : DeleteChunks(ok)
    \/ \E ok \in BOOLEAN : DeleteDoc(ok)
    \/ \E ok \in BOOLEAN : DeleteCommit(ok)

\* no concurrent caller, no caller deadline and no function under study
NoSessions == <<>>
\* sync.RWMutex, unlocked
NoLock == [writer |-> "none", readers |-> {}]
NoCall == [fn |-> "none"]
\* a database file without the table chunks_fts and without fragments
NoIndex == [exists |-> FALSE, rowid |-> <<>>, index |-> {}]
InitOther ==
    /\ sessions = NoSessions
    /\ dbLock = "none"
    /\ cacheMutex = NoLock
    /\ chunks_fts = NoIndex
    /\ callerDeadline = 0
    /\ args = NoCall
    /\ ret = NoCall

----------------------------------------------------------------------------
(* FindRelevantChunks.  A similarity is kept as the exact fraction num/den;
   a threshold is a number of tenths. *)

\* strings.ToLower on the letters of the model's alphabet
lowerChar(ch) == IF ch = "A" THEN "a" ELSE IF ch = "B" THEN "b" ELSE ch
ToLower(s) == [i \in 1 .. Len(s) |-> lowerChar(s[i])]

\* strings.Fields: the maximal runs of non-space characters
RECURSIVE Fields(_)
Fields(s) ==
    LET t == TrimLeft(s)
        wordLen == IF \E i \in 1 .. Len(t) : IsSpace(t[i])
                   THEN (CHOOSE i \in 1 .. Len(t) :
                            IsSpace(t[i]) /\ \A j \in 1 .. i - 1 : ~IsSpace(t[j])) - 1
                   ELSE Len(t)
    IN  IF t = <<>> THEN <<>>
        ELSE <<Prefix(t, wordLen)>> \o Fields(SubSeq(t, wordLen + 1, Len(t)))

\* strings.Contains
Contains(s, sub) ==
    \E i \in 0 .. Len(s) - Len(sub) : SubSeq(s, i + 1, i + Len(sub)) = sub

\* the three ReplaceAll calls of formatFTS5Query: the characters ", ' and \
\* are removed from a word
RECURSIVE stripFTS5(_)
stripFTS5(word) ==
    IF word = <<>> THEN <<>>
    ELSE IF Head(word) \in {"\"", "'", "\\"} THEN stripFTS5(Tail(word))
         ELSE <<Head(word)>> \o stripFTS5(Tail(word))

\* lines 727-753: the cleaned words that are left, which the code joins with
\* " AND "; the empty sequence stands for the empty string
RECURSIVE cleanedWords(_)
cleanedWords(words) ==
    IF words = <<>> THEN <<>>
    ELSE LET cleaned == TrimSpace(stripFTS5(Head(words)))
         IN  (IF cleaned # <<>> THEN <<cleaned>> ELSE <<>>) \o cleanedWords(Tail(words))

formatFTS5Query(q) == cleanedWords(Fields(TrimSpace(q)))

\* the terms of the query the store matches against: the words joined into
\* the MATCH expression (line 793) or the words of the LIKE patterns (line 866)
matchTerms(fts5, q) == IF fts5 THEN formatFTS5Query(q) ELSE Fields(q)

\* the characters of which FTS5 accepts an unquoted word
BarewordChars == {"a", "b", "c", "A", "B"}

\* the MATCH expression 'w1 AND w2 ...' parses: every word is unquoted and
\* made of such characters
ftsWellFormed(terms) ==
    \A k \in 1 .. Len(terms) : \A i \in 1 .. Len(terms[k]) : terms[k][i] \in BarewordChars

\* chunks_fts MATCH 'w1 AND w2 ...' for words of letters: every word is,
\* case folded, one of the tokens of the content
ftsMatch(content, terms) ==
    \A k \in 1 .. Len(terms) :
        \E t \in 1 .. Len(Fields(ToLower(content))) :
            Fields(ToLower(content))[t] = ToLower(terms[k])

\* text LIKE pattern: % stands for any characters, _ for any one character,
\* and ASCII letters match in either case
RECURSIVE like(_, _)
like(pattern, text) ==
    IF pattern = <<>> THEN text = <<>>
    ELSE IF Head(pattern) = "%"
    THEN like(Tail(pattern), text) \/ (text # <<>> /\ like(pattern, Tail(text)))
    ELSE /\ text # <<>>
         /\ Head(pattern) = "_" \/ lowerChar(Head(pattern)) = lowerChar(Head(text))
         /\ like(Tail(pattern), Tail(text))

\* content LIKE '%word%' (lines 876 and 887)
likeMatch(content, word) == like(<<"%">> \o word \o <<"%">>, content)

\* the fraction a/b
Frac(a, b) == [num |-> a, den |-> b]

\* similarity >= threshold, the threshold in tenths
atLeast(sim, threshold) == 10 * sim.num >= threshold * sim.den

\* a similarity that counts a repeated query word once
calculateSimilarityDistinct(q, content) ==
    LET queryWords == Fields(ToLower(q))
        found == {queryWords[k] : k \in {i \in 1 .. Len(queryWords) :
                                            Contains(ToLower(content), queryWords[i])}}
    IN  IF Len(queryWords) = 0 THEN Frac(0, 1)
        ELSE Frac(Cardinality(found), Len(queryWords))

\* lines 923-939
calculateSimpleSimilarity(q, content) ==
    LET queryWords == Fields(ToLower(q))
        matches == Cardinality({k \in 1 .. Len(queryWords) :
                                   Contains(ToLower(content), queryWords[k])})
    IN  IF Len(queryWords) = 0 THEN Frac(0, 1)
        ELSE Frac(matches, Len(queryWords))

\* ORDER BY rank_score: the positions of a set of rows, best (lowest) raw
\* score first, rows of equal score in table order
RECURSIVE orderByRank(_, _)
orderByRank(positions, ranks) ==
    IF positions = {} THEN <<>>
    ELSE LET first == CHOOSE i \in positions :
                          \A j \in positions :
                              ranks[i] < ranks[j] \/ (ranks[i] = ranks[j] /\ i <= j)
         IN  <<first>> \o orderByRank(positions \ {first}, ranks)

\* the rows at the positions where the test holds, in table order
RECURSIVE positionsOf(_, _)
positionsOf(n, keep) ==
    IF n = 0 THEN <<>>
    ELSE positionsOf(n - 1, keep) \o (IF n \in keep THEN <<n>> ELSE <<>>)

\* a filter that keeps what is at most the threshold
passesBelow(sim, threshold) == threshold <= 0 \/ 10 * sim.num <= threshold * sim.den

\* the threshold filter of both modes (lines 786, 851 and 914)
passes(sim, threshold) == threshold <= 0 \/ atLeast(sim, threshold)

\* a fetched row with its similarity, as the loops append it
Scored(row, sim) ==
    [ID |-> row.id, DocumentID |-> row.document_id, Content |-> row.content,
     Similarity |-> sim]

RECURSIVE filterByThreshold(_, _)
filterByThreshold(scored, threshold) ==
    IF scored = <<>> THEN <<>>
    ELSE (IF passes(Head(scored).Similarity, threshold) THEN <<Head(scored)>> ELSE <<>>)
         \o filterByThreshold(Tail(scored), threshold)

\* a normalization that gives the best row 0 and the worst row 1
normalizeInverted(rank, minRank, maxRank) ==
    IF maxRank = minRank THEN Frac(1, 1)
    ELSE Frac(rank - minRank, maxRank - minRank)

\* lines 843-850
normalize(rank, minRank, maxRank) ==
    IF maxRank = minRank THEN Frac(1, 1)
    ELSE Frac(maxRank - rank, maxRank - minRank)

\* lines 765-859; ranks[i] is bm25() of row i of the table for the query.
\* SQLite parses the MATCH expression when the statement is first stepped, in
\* rows.Next(): for an expression that does not parse, Next() returns false,
\* no row is fetched, and the loop ends as for a query without a match.
findRelevantChunksFTS5(rows, ranks, q, limit, threshold) ==
    IF TrimSpace(q) = <<>>
    THEN filterByThreshold(
            [i \in 1 .. Len(limitRows(rows, limit)) |->
                Scored(limitRows(rows, limit)[i], Frac(NeutralFTS5, 10))], threshold)
    ELSE IF formatFTS5Query(q) = <<>> THEN <<>>
    ELSE LET matching == IF ftsWellFormed(formatFTS5Query(q))
                         THEN {i \in 1 .. Len(rows) :
                                  ftsMatch(rows[i].content, formatFTS5Query(q))}
                         ELSE {}
             tempResults == limitRows(orderByRank(matching, ranks), limit)
             minRank == ranks[tempResults[1]]
             maxRank == ranks[tempResults[Len(tempResults)]]
             sim(i) == normalize(ranks[i], minRank, maxRank)
         IN  filterByThreshold(
                [k \in 1 .. Len(tempResults) |->
                    Scored(rows[tempResults[k]], sim(tempResults[k]))], threshold)

\* a search that filters every candidate by the threshold and limits after
findRelevantChunksLikeFilterFirst(rows, q, limit, threshold) ==
    LET queryWords == Fields(q)
        candidates == {i \in 1 .. Len(rows) :
                          \/ Len(queryWords) = 0
                          \/ \E k \in 1 .. Len(queryWords) :
                                 likeMatch(rows[i].content, queryWords[k])}
        all == positionsOf(Len(rows), candidates)
    IN  limitRows(
            filterByThreshold(
                [k \in 1 .. Len(all) |->
                    Scored(rows[all[k]], calculateSimpleSimilarity(q, rows[all[k]].content))],
                threshold),
            limit)

\* lines 862-920
findRelevantChunksLike(rows, q, limit, threshold) ==
    LET queryWords == Fields(q)
        candidates == {i \in 1 .. Len(rows) :
                          \/ Len(queryWords) = 0
                          \/ \E k \in 1 .. Len(queryWords) :
                                 likeMatch(rows[i].content, queryWords[k])}
        fetched == limitRows(positionsOf(Len(rows), candidates), limit)
    IN  filterByThreshold(
            [k \in 1 .. Len(fetched) |->
                Scored(rows[fetched[k]],
                       calculateSimpleSimilarity(q, rows[fetched[k]].content))],
            threshold)

\* lines 756-762
findRelevant(fts5, rows, ranks, q, limit, threshold) ==
    IF fts5 THEN findRelevantChunksFTS5(rows, ranks, q, limit, threshold)
    ELSE findRelevantChunksLike(rows, q, limit, threshold)

(* The stores and the calls of the study of FindRelevantChunks *)

\* the number of stored fragments
MaxRows == 2

DocNames == <<"d1", "d2", "d3", "d4">>
ChunkTexts == {<<"a", " ", "b">>, <<"B">>, <<"a">>}
Queries == {<<>>, <<" ">>, <<"a">>, <<"A", " ", "b">>, <<"b", " ", " ", "a">>,
            <<"c">>, <<"\"">>, <<"a", "%">>, <<"a", "\t", "b", "\n">>,
            <<"a", " ", "A">>, <<"c", NUL>>}
Limits == {-1, 0, 1, 2, 10}
Thresholds == {-1, 0, 5, 6, 10}

\* bm25() is negative; the better the match the lower
Ranks == {-3, -2, -1}

\* every stored text is the one fragment of a document of its own
Stores == UNION {[1 .. n -> ChunkTexts] : n \in 0 .. MaxRows}
storeDocs(texts) ==
    [i \in 1 .. Len(texts) |->
        DocRow([ID |-> DocNames[i], Title |-> <<"t">>, Content |-> texts[i]])]
storeChunks(texts) ==
    [i \in 1 .. Len(texts) |-> ChunkRow(DocNames[i], 0, texts[i])]

\* an error check after the loop, which would report the failed step
queryErrorChecked(fts5, q, ok) ==
    IF ~ok THEN "query"
    ELSE IF fts5 /\ TrimSpace(q) # <<>> /\ ~ftsWellFormed(formatFTS5Query(q))
    THEN "fts5 syntax"
    ELSE "nil"

\* the error FindRelevantChunks returns: the one of Queryx (lines 773, 810
\* and 896) or of a Scan; what ends rows.Next() is not looked at, there is
\* no call of rows.Err()
queryError(fts5, q, ok) == IF ~ok THEN "query" ELSE "nil"

\* the raw scores of the rows: bm25() exists with the extension only
rankVectors == IF fts5Enabled THEN [1 .. Len(chunks) -> Ranks]
               ELSE {[i \in 1 .. Len(chunks) |-> 0]}

\* one call FindRelevantChunks(query, limit, threshold) on the store; ok: the
\* database runs Queryx and the scans without an error
FindRelevantChunks ==
    /\ args = NoCall
    /\ \E q \in Queries, limit \in Limits, threshold \in Thresholds,
          ranks \in rankVectors, ok \in BOOLEAN :
          /\ args' = [fn |-> "FindRelevantChunks", query |-> q, limit |-> limit,
                      threshold |-> threshold, ranks |-> ranks, dbOk |-> ok]
          /\ ret' = [fn |-> "FindRelevantChunks",
                     err |-> queryError(fts5Enabled, q, ok),
                     chunks |-> IF queryError(fts5Enabled, q, ok) = "nil"
                                THEN findRelevant(fts5Enabled, chunks, ranks, q,
                                                  limit, threshold)
                                ELSE <<>>]
    /\ UNCHANGED <<clientVars, repoVars, sessions, dbLock, cacheMutex, chunks_fts, callerDeadline>>

NextFind == FindRelevantChunks

----------------------------------------------------------------------------
(* splitIntoChunks on texts and chunk sizes of the callers' choice *)

\* the longest generated text and the largest generated chunk size
MaxTextLen == 4
MaxChunkSize == 3

\* a sentence with single spaces and a final full stop
Sentence == <<"A", " ", "c", "a", "t", " ", "s", "a", "t", " ", "o", "n", " ", "a", " ", "m", "a", "t", ".">>
SentenceSize == 6

SplitTexts == StringsUpTo({"a", " "}, MaxTextLen) \cup {Sentence}
SplitSizes == 1 .. MaxChunkSize \cup {SentenceSize}

\* one call splitIntoChunks(text, chunkSize)
SplitIntoChunks ==
    /\ args = NoCall
    /\ \E text \in SplitTexts, chunkSize \in SplitSizes :
          /\ args' = [fn |-> "splitIntoChunks", text |-> text, chunkSize |-> chunkSize]
          /\ ret' = [fn |-> "splitIntoChunks",
                     chunks |-> splitIntoChunks(text, chunkSize)]
    /\ UNCHANGED <<clientVars, repoVars, sessions, dbLock, cacheMutex, chunks_fts, callerDeadline>>

NextSplit == SplitIntoChunks

----------------------------------------------------------------------------
(* BuildPrompt and the cache fingerprint of a query and its fragments *)

MaxChunkContentLen == 5000

\* the three constant parts of the format string, each one token
PromptHead == <<"Answer the question using only the following context. Context:">>
PromptMid == <<"Question:">>
PromptTail == <<"Answer:">>

\* lines 441-449: the sanitized contents that are not empty
RECURSIVE contextParts(_)
contextParts(cs) ==
    IF cs = <<>> THEN <<>>
    ELSE LET content == sanitizeInput(Head(cs).Content, MaxChunkContentLen)
         IN  (IF content # <<>> THEN <<content>> ELSE <<>>) \o contextParts(Tail(cs))

\* strings.Join(parts, "\n\n")
RECURSIVE Join(_)
Join(parts) ==
    IF parts = <<>> THEN <<>>
    ELSE IF Len(parts) = 1 THEN Head(parts)
    ELSE Head(parts) \o <<"\n", "\n">> \o Join(Tail(parts))

\* lines 436-456
BuildPrompt(q, cs) ==
    PromptHead \o <<"\n">> \o Join(contextParts(cs)) \o <<"\n", "\n">>
        \o PromptMid \o <<" ">> \o sanitizeInput(q, MaxQueryLen) \o <<"\n", "\n">>
        \o PromptTail

\* lines 240-243: the fingerprint GenerateResponse looks up for the call
fingerprint(q, cs) == getCacheKey(sanitizeInput(q, MaxQueryLen), cs)

\* the number of fragments handed to a call
MaxChunks == 2

PromptQueries == {<<"a">>, <<" ", "a", NUL>>, <<NUL>>}
PromptContents == {<<>>, <<"b">>, <<NUL, "b", " ">>}
PromptChunkIDs == <<"c1", "c2", "c3", "c4">>
PromptChunkLists ==
    UNION {{[i \in 1 .. n |-> [ID |-> <<PromptChunkIDs[i]>>, Content |-> texts[i]]] :
               texts \in [1 .. n -> PromptContents]} : n \in 0 .. MaxChunks}

\* one call that builds the prompt and the fingerprint; the call before it
\* is remembered
BuildPromptCall ==
    \E q \in PromptQueries, cs \in PromptChunkLists :
        /\ args' = [fn |-> "BuildPrompt", query |-> q, chunks |-> cs]
        /\ ret' = [fn |-> "BuildPrompt", prompt |-> BuildPrompt(q, cs),
                   key |-> fingerprint(q, cs),
                   before |-> IF ret.fn = "none" THEN NoCall
                              ELSE [fn |-> "BuildPrompt", query |-> args.query,
                                    chunks |-> args.chunks, prompt |-> ret.prompt,
                                    key |-> ret.key]]
        /\ UNCHANGED <<clientVars, repoVars, sessions, dbLock, cacheMutex, chunks_fts, callerDeadline>>

NextPrompt == BuildPromptCall

----------------------------------------------------------------------------
(* The cache fingerprint as a function of the query and the fragments *)

\* the number of fragments handed to a call
MaxKeyChunks == 2

\* contents longer than the prefix that enters the key: two that differ in
\* their last byte only, and one that differs from them in its first byte
LongContent(first, last) ==
    [i \in 1 .. KeyPrefixLen + 1 |->
        IF i = 1 THEN first ELSE IF i = KeyPrefixLen + 1 THEN last ELSE "x"]

KeyQueries == {<<"a">>, <<" ", "a">>, <<"a", "b">>}
KeyChunkIDs == {<<"b">>, <<"c">>}
KeyContents == {<<>>, LongContent("x", "a"), LongContent("x", "b"), LongContent("y", "a")}
KeyChunks == {[ID |-> id, Content |-> c] : id \in KeyChunkIDs, c \in KeyContents}
KeyChunkLists == UNION {[1 .. n -> KeyChunks] : n \in 0 .. MaxKeyChunks}
KeyInputs == {[query |-> q, chunks |-> cs] : q \in KeyQueries, cs \in KeyChunkLists}

\* lines 239-243: one call of GenerateResponse up to its fingerprint
GetCacheKeyCall ==
    /\ args = NoCall
    /\ \E in \in KeyInputs :
          /\ args' = [fn |-> "getCacheKey", query |-> in.query, chunks |-> in.chunks]
          /\ ret' = [fn |-> "getCacheKey",
                     query |-> sanitizeInput(in.query, MaxQueryLen),
                     key |-> fingerprint(in.query, in.chunks)]
    /\ UNCHANGED <<clientVars, repoVars, sessions, dbLock, cacheMutex, chunks_fts, callerDeadline>>

NextKey == GetCacheKeyCall

----------------------------------------------------------------------------
(* sanitizeInput as a function of the input and the length cap *)

\* the longest input and the largest cap
MaxInputLen == 3
MaxCap == 2

SanitizeInputs == StringsUpTo({" ", "a", NUL}, MaxInputLen)
SanitizeCaps == 1 .. MaxCap

\* lines 156-167: one call of sanitizeInput
SanitizeInputCall ==
    /\ args = NoCall
    /\ \E s \in SanitizeInputs, m \in SanitizeCaps :
          /\ args' = [fn |-> "sanitizeInput", input |-> s, maxLength |-> m,
                      again |-> FALSE]
          /\ ret' = [fn |-> "sanitizeInput", out |-> sanitizeInput(s, m)]
    /\ UNCHANGED <<clientVars, repoVars, sessions, dbLock, cacheMutex, chunks_fts, callerDeadline>>

\* lines 156-167: the value returned is sanitized once more with the same cap
SanitizeInputAgain ==
    /\ args.fn = "sanitizeInput"
    /\ ~args.again
    /\ args' = [args EXCEPT !.input = ret.out, !.again = TRUE]
    /\ ret' = [fn |-> "sanitizeInput", out |-> sanitizeInput(ret.out, args.maxLength)]
    /\ UNCHANGED <<clientVars, repoVars, sessions, dbLock, cacheMutex, chunks_fts, callerDeadline>>

NextSanitize == SanitizeInputCall \/ SanitizeInputAgain

----------------------------------------------------------------------------
(* The request context of an attempt (lines 290-330) *)

\* the longest response body
MaxBodyLen == 2

AttemptBodies == StringsUpTo({"a"}, MaxBodyLen)

attemptRest == <<clientVars, repoVars, sessions, dbLock, cacheMutex, chunks_fts, callerDeadline>>

\* line 291: context.WithTimeout for the first attempt or after a `continue`
WithTimeout ==
    /\ \/ args = NoCall
       \/ args.fn = "attempt" /\ args.at = "continue" /\ args.attempt < maxRetries
    /\ args' = [fn |-> "attempt",
                attempt |-> IF args = NoCall THEN 0 ELSE args.attempt + 1,
                at |-> "NewRequest", ctx |-> "live", resp |-> FALSE,
                body |-> <<>>, buffered |-> 0]
    /\ UNCHANGED ret
    /\ UNCHANGED attemptRest

\* lines 293-298: a request that cannot be built cancels the context and
\* continues
NewRequestWithContext(ok) ==
    /\ args.fn = "attempt"
    /\ args.at = "NewRequest"
    /\ args' = IF ok THEN [args EXCEPT !.at = "Do"]
               ELSE [args EXCEPT !.at = "continue", !.ctx = "canceled"]
    /\ UNCHANGED ret
    /\ UNCHANGED attemptRest

\* line 303: c.client.Do returns when the header of the response has arrived,
\* with `buffered` bytes of the body already received, or with an error
\* (the deadline of the context among them)
ClientDo(ok, body, buffered, expired) ==
    /\ args.fn = "attempt"
    /\ args.at = "Do"
    /\ buffered \in 0 .. Len(body)
    /\ args' = IF ok
               THEN [args EXCEPT !.at = "cancel", !.resp = TRUE, !.body = body,
                                 !.buffered = buffered]
               ELSE [args EXCEPT !.at = "cancel",
                                 !.ctx = IF expired THEN "deadline" ELSE "live"]
    /\ UNCHANGED ret
    /\ UNCHANGED attemptRest

\* line 304: cancel(), whatever Do returned
Cancel ==
    /\ args.fn = "attempt"
    /\ args.at = "cancel"
    /\ args' = [args EXCEPT !.at = IF args.resp THEN "ReadAll" ELSE "err",
                            !.ctx = IF args.ctx = "live" THEN "canceled" ELSE args.ctx]
    /\ UNCHANGED ret
    /\ UNCHANGED attemptRest

\* lines 306-313: Do returned an error
DoFailed ==
    /\ args.fn = "attempt"
    /\ args.at = "err"
    /\ args' = [args EXCEPT !.at = IF mayRetry(args.attempt) THEN "continue" ELSE "break"]
    /\ ret' = [fn |-> "attempt", body |-> <<>>, err |-> "do"]
    /\ UNCHANGED attemptRest

\* line 318: io.ReadAll(resp.Body).  The bytes received before the context
\* ended are delivered; for the rest the transport, which closes the
\* connection of a request whose context has ended, returns the error of
\* the context, unless the peer had ended the connection before.
ReadAll(peerClosed) ==
    /\ args.fn = "attempt"
    /\ args.at = "ReadAll"
    /\ ret' = IF args.buffered = Len(args.body)
              THEN [fn |-> "attempt", body |-> args.body, err |-> "nil"]
              ELSE [fn |-> "attempt", body |-> Prefix(args.body, args.buffered),
                    err |-> IF peerClosed THEN "unexpected EOF"
                            ELSE IF args.ctx = "canceled" THEN "context canceled"
                            ELSE "deadline exceeded"]
    /\ args' = [args EXCEPT !.at = "readErr"]
    /\ UNCHANGED attemptRest

\* lines 319-327: a read error is retried while attempts remain; a body
\* that was read goes on to the status handling
ReadChecked ==
    /\ args.fn = "attempt"
    /\ args.at = "readErr"
    /\ args' = [args EXCEPT !.at = IF ret.err = "nil" THEN "status"
                                   ELSE IF mayRetry(args.attempt) THEN "continue"
                                   ELSE "break"]
    /\ UNCHANGED ret
    /\ UNCHANGED attemptRest

NextAttempt ==
    \/ WithTimeout
    \/ \E ok \in BOOLEAN : NewRequestWithContext(ok)
    \/ \E ok \in BOOLEAN, body \in AttemptBodies, buffered \in 0 .. MaxBodyLen,
          expired \in BOOLEAN : ClientDo(ok, body, buffered, expired)
    \/ Cancel
    \/ DoFailed
    \/ \E peerClosed \in BOOLEAN : ReadAll(peerClosed)
    \/ ReadChecked

----------------------------------------------------------------------------
(* NewAIClient: the configuration file, the environment and the client *)

Placeholder == "YOUR_API_KEY_HERE"

MaxTemperature == 2

NoClient == [exists |-> FALSE]

\* the values of AI_API_KEY, AI_MODEL and AI_BASE_URL; "" is an unset variable
Environments ==
    [AI_API_KEY : {"", Placeholder, "env-key"},
     AI_MODEL : {"", "env-model"},
     AI_BASE_URL : {"", "env-url"}]

\* the ai section of the configuration file
Configs ==
    [APIKey : {"", Placeholder, "file-key"},
     BaseURL : {"", "file-url"},
     Model : {"", "file-model"},
     TimeoutSecs : {0, 30},
     MaxTokens : {0, 100},
     Temperature : {-1, 0, MaxTemperature, MaxTemperature + 1}]

\* lines 87-93: the environment overrides the file
effectiveConfig(env, cfg) ==
    [cfg EXCEPT !.APIKey = env.AI_API_KEY,
                !.Model = IF env.AI_MODEL # "" THEN env.AI_MODEL ELSE @,
                !.BaseURL = IF env.AI_BASE_URL # "" THEN env.AI_BASE_URL ELSE @]

\* lines 63-136; loadOk: the file is read and parsed, mkdirOk: the cache
\* directory is there or can be made
NewAIClient(env, cfg, loadOk, mkdirOk) ==
    LET config == effectiveConfig(env, cfg)
        failed(e) == [client |-> NoClient, err |-> e]
    IN  IF ~loadOk THEN failed("load config")
        ELSE IF env.AI_API_KEY = ""
        THEN IF cfg.APIKey = "" \/ cfg.APIKey = Placeholder
             THEN failed("api key not set")
             ELSE failed("api key in config file")
        ELSE IF config.BaseURL = "" THEN failed("base_url")
        ELSE IF config.Model = "" THEN failed("model")
        ELSE IF config.TimeoutSecs <= 0 THEN failed("timeout")
        ELSE IF config.MaxTokens <= 0 THEN failed("max_tokens")
        ELSE IF config.Temperature < 0 \/ config.Temperature > MaxTemperature
        THEN failed("temperature")
        ELSE IF ~mkdirOk THEN failed("cache directory")
        ELSE [client |-> [exists |-> TRUE, config |-> config,
                          maxRetries |-> maxRetries, retryDelay |-> retryDelay],
              err |-> "nil"]

\* one call NewAIClient(configPath) in an environment
NewAIClientCall ==
    /\ args = NoCall
    /\ \E env \in Environments, cfg \in Configs, loadOk \in BOOLEAN, mkdirOk \in BOOLEAN :
          /\ args' = [fn |-> "NewAIClient", env |-> env, cfg |-> cfg,
                      loadOk |-> loadOk, mkdirOk |-> mkdirOk]
          /\ ret' = [fn |-> "NewAIClient"] @@ NewAIClient(env, cfg, loadOk, mkdirOk)
    /\ UNCHANGED <<clientVars, repoVars, sessions, dbLock, cacheMutex, chunks_fts, callerDeadline>>

NextNew == NewAIClientCall

----------------------------------------------------------------------------
(* Concurrent SaveDocument calls.  database/sql gives every transaction a
   connection of its own; SQLite admits one writing transaction at a time:
   a transaction takes the write lock at its first INSERT, waits for it while
   another holds it, and gives it up at its commit or rollback.  A wait that
   the database ends with "database is locked" is a failed statement. *)

\* each goroutine of the callers saves the document of its own id
Callers == DocIDs

NoSession == [step |-> "none", doc |-> NoDoc, wdocs |-> <<>>, wchunks |-> <<>>,
              todo |-> <<>>, n |-> 0, err |-> "nil", dbFailed |-> FALSE]

\* a database without the write lock
lockFreeAlways(c) == TRUE

\* the write lock is free for the caller, or the caller holds it
lockFree(c) == dbLock \in {"none", c}

\* the caller's SaveDocument returns: the deferred tx.Rollback() discards what
\* was not committed and the lock is given up
FinishBy(c, err, dbFailed) ==
    /\ sessions' = [sessions EXCEPT ![c] =
                        [NoSession EXCEPT !.step = "done", !.doc = sessions[c].doc,
                                          !.err = err, !.dbFailed = dbFailed]]
    /\ dbLock' = IF dbLock = c THEN "none" ELSE dbLock

\* lines 643-648: r.db.Begin() of a deferred transaction takes no lock
SaveBeginBy(c, content, ok) ==
    /\ sessions[c].step = "none"
    /\ LET doc == [ID |-> c, Title |-> <<"t">>, Content |-> content, CreatedAt |-> 1]
       IN  IF ok
           THEN /\ sessions' = [sessions EXCEPT ![c] =
                                    [NoSession EXCEPT !.step = "document", !.doc = doc]]
                /\ UNCHANGED dbLock
           ELSE /\ sessions' = [sessions EXCEPT ![c] =
                                    [NoSession EXCEPT !.step = "done", !.doc = doc,
                                                      !.err = "begin", !.dbFailed = TRUE]]
                /\ UNCHANGED dbLock
    /\ UNCHANGED <<docs, chunks>>
    /\ UNCHANGED <<clientVars, tx, repoLog, fts5Enabled, cacheMutex, chunks_fts, callerDeadline, args, ret>>

\* lines 650-663: the first INSERT takes the write lock and sees the
\* committed tables; then the content is split
SaveInsertDocumentBy(c, ok) ==
    /\ sessions[c].step = "document"
    /\ IF ~ok
       THEN FinishBy(c, "insert document", TRUE)
       ELSE /\ lockFree(c)
            /\ IF ~HasKey(docs, sessions[c].doc.ID)
               THEN /\ sessions' = [sessions EXCEPT ![c] =
                          [@ EXCEPT !.step = "chunks",
                                    !.wdocs = insertRow(docs, DocRow(sessions[c].doc)),
                                    !.wchunks = chunks,
                                    !.todo = splitIntoChunks(sessions[c].doc.Content,
                                                             ChunkSize)]]
                    /\ dbLock' = c
               ELSE FinishBy(c, "insert document", FALSE)
    /\ UNCHANGED <<docs, chunks>>
    /\ UNCHANGED <<clientVars, tx, repoLog, fts5Enabled, cacheMutex, chunks_fts, callerDeadline, args, ret>>

\* lines 665-677: one iteration of the loop over the fragments
SaveInsertChunkBy(c, ok) ==
    /\ sessions[c].step = "chunks"
    /\ sessions[c].todo # <<>>
    /\ IF ~ok
       THEN FinishBy(c, "insert chunk", TRUE)
       ELSE IF ~HasKey(sessions[c].wchunks, chunkID(sessions[c].doc.ID, sessions[c].n))
       THEN /\ sessions' = [sessions EXCEPT ![c] =
                  [@ EXCEPT !.wchunks = insertRow(@, ChunkRow(sessions[c].doc.ID,
                                                   sessions[c].n, Head(sessions[c].todo))),
                            !.todo = Tail(@),
                            !.n = @ + 1]]
            /\ UNCHANGED dbLock
       ELSE FinishBy(c, "insert chunk", FALSE)
    /\ UNCHANGED <<docs, chunks>>
    /\ UNCHANGED <<clientVars, tx, repoLog, fts5Enabled, cacheMutex, chunks_fts, callerDeadline, args, ret>>

\* lines 679-684: tx.Commit()
SaveCommitBy(c, ok) ==
    /\ sessions[c].step = "chunks"
    /\ sessions[c].todo = <<>>
    /\ IF ok
       THEN /\ docs' = sessions[c].wdocs
            /\ chunks' = sessions[c].wchunks
            /\ FinishBy(c, "nil", FALSE)
       ELSE /\ FinishBy(c, "commit", TRUE)
            /\ UNCHANGED <<docs, chunks>>
    /\ UNCHANGED <<clientVars, tx, repoLog, fts5Enabled, cacheMutex, chunks_fts, callerDeadline, args, ret>>

NextConc ==
    \/ \E c \in Callers, content \in DocContents, ok \in BOOLEAN :
            SaveBeginBy(c, content, ok)
    \/ \E c \in Callers, ok \in BOOLEAN : SaveInsertDocumentBy(c, ok)
    \/ \E c \in Callers, ok \in BOOLEAN : SaveInsertChunkBy(c, ok)
    \/ \E c \in Callers, ok \in BOOLEAN : SaveCommitBy(c, ok)

----------------------------------------------------------------------------
(* The cache used by concurrent goroutines: getCachedResponse,
   saveCachedResponse and ClearCache under AIClient.cacheMutex *)

Goroutines == {"g1", "g2"}
PutValues == {<<"a", "b">>, <<"b">>}

NoGoroutine == [op |-> "none", step |-> "idle", key |-> <<>>, value |-> <<>>,
                got |-> NoFile, todo |-> {}]

\* a read lock that does not wait for the writer
canRLockAlways(g) == TRUE

\* RLock(): granted while no goroutine holds the write lock
canRLock(g) == cacheMutex.writer = "none"

\* Lock(): granted while no goroutine holds the lock in either mode; the one
\* mutex of the client serves every key
canLock(g) == cacheMutex.writer = "none" /\ cacheMutex.readers = {}

\* the variables the cache operations leave alone
cacheLockRest == <<baseURLOk, cacheOp, pc, query, cacheKey, attempt, lastErr, metrics,
                   result, trace, slept, saves, repoVars, dbLock, chunks_fts,
                   callerDeadline,
                   args, ret>>

\* a goroutine calls getCachedResponse(key), saveCachedResponse(key, value) or
\* ClearCache() and arrives at the lock
CacheCall(g, op, key, value) ==
    /\ sessions[g].step = "idle"
    /\ sessions' = [sessions EXCEPT ![g] =
                        [NoGoroutine EXCEPT !.op = op, !.step = "lock",
                                            !.key = IF op = "clear" THEN <<>> ELSE key,
                                            !.value = IF op = "put" THEN value ELSE <<>>]]
    /\ UNCHANGED <<cache, cacheMutex, cacheLockRest>>

\* line 183
RLock(g) ==
    /\ sessions[g].step = "lock"
    /\ sessions[g].op = "get"
    /\ canRLock(g)
    /\ cacheMutex' = [cacheMutex EXCEPT !.readers = @ \cup {g}]
    /\ sessions' = [sessions EXCEPT ![g].step = "read"]
    /\ UNCHANGED <<cache, cacheLockRest>>

\* lines 186-187: os.ReadFile
ReadFile(g) ==
    /\ sessions[g].step = "read"
    /\ sessions' = [sessions EXCEPT ![g].step = "runlock", ![g].got = cache[sessions[g].key]]
    /\ UNCHANGED <<cache, cacheMutex, cacheLockRest>>

\* line 184, the deferred RUnlock
RUnlock(g) ==
    /\ sessions[g].step = "runlock"
    /\ cacheMutex' = [cacheMutex EXCEPT !.readers = @ \ {g}]
    /\ sessions' = [sessions EXCEPT ![g].step = "idle"]
    /\ UNCHANGED <<cache, cacheLockRest>>

\* lines 203 and 465
Lock(g) ==
    /\ sessions[g].step = "lock"
    /\ sessions[g].op \in {"put", "clear"}
    /\ canLock(g)
    /\ cacheMutex' = [cacheMutex EXCEPT !.writer = g]
    /\ sessions' = [sessions EXCEPT
                        ![g].step = IF sessions[g].op = "put" THEN "create" ELSE "glob"]
    /\ UNCHANGED <<cache, cacheLockRest>>

\* line 207, os.WriteFile: the file is created or truncated
OpenTruncate(g) ==
    /\ sessions[g].step = "create"
    /\ cache' = [cache EXCEPT ![sessions[g].key] = File(<<>>)]
    /\ sessions' = [sessions EXCEPT ![g].step = "write"]
    /\ UNCHANGED <<cacheMutex, cacheLockRest>>

\* line 207, os.WriteFile: the next byte reaches the file; after the last one
\* the file is what saveCachedResponse leaves
WriteByte(g) ==
    /\ sessions[g].step = "write"
    /\ LET data == cache[sessions[g].key].data
           value == sessions[g].value
       IN  /\ cache' = IF Len(data) + 1 = Len(value)
                       THEN saveCachedResponse(cache, sessions[g].key, value, TRUE, 0)
                       ELSE [cache EXCEPT ![sessions[g].key] =
                                File(Prefix(value, Len(data) + 1))]
           /\ sessions' = [sessions EXCEPT
                              ![g].step = IF Len(data) + 1 = Len(value)
                                          THEN "unlock" ELSE "write"]
    /\ UNCHANGED <<cacheMutex, cacheLockRest>>

\* line 468: filepath.Glob
Glob(g) ==
    /\ sessions[g].step = "glob"
    /\ sessions' = [sessions EXCEPT ![g].step = "remove", ![g].todo = cacheFiles(cache)]
    /\ UNCHANGED <<cache, cacheMutex, cacheLockRest>>

\* lines 473-477: os.Remove of the next file, or the end of the loop
Remove(g) ==
    /\ sessions[g].step = "remove"
    /\ IF sessions[g].todo = {}
       THEN /\ sessions' = [sessions EXCEPT ![g].step = "unlock"]
            /\ UNCHANGED cache
       ELSE \E k \in sessions[g].todo :
                /\ cache' = [cache EXCEPT ![k] = NoFile]
                /\ sessions' = [sessions EXCEPT ![g].todo = @ \ {k}]
    /\ UNCHANGED <<cacheMutex, cacheLockRest>>

\* lines 204 and 466, the deferred Unlock
Unlock(g) ==
    /\ sessions[g].step = "unlock"
    /\ cacheMutex' = [cacheMutex EXCEPT !.writer = "none"]
    /\ sessions' = [sessions EXCEPT ![g].step = "idle"]
    /\ UNCHANGED <<cache, cacheLockRest>>

NextCacheLock ==
    \/ \E g \in Goroutines, op \in {"get", "put", "clear"}, key \in Keys,
          value \in PutValues : CacheCall(g, op, key, value)
    \/ \E g \in Goroutines : RLock(g)
    \/ \E g \in Goroutines : ReadFile(g)
    \/ \E g \in Goroutines : RUnlock(g)
    \/ \E g \in Goroutines : Lock(g)
    \/ \E g \in Goroutines : OpenTruncate(g)
    \/ \E g \in Goroutines : WriteByte(g)
    \/ \E g \in Goroutines : Glob(g)
    \/ \E g \in Goroutines : Remove(g)
    \/ \E g \in Goroutines : Unlock(g)

----------------------------------------------------------------------------
(* The FTS5 table chunks_fts and its triggers (initSchema), kept beside the
   table chunks through construction, SaveDocument and DeleteDocument.
   chunks_fts.rowid[i] is the rowid of chunks[i]; chunks_fts.index holds what
   the full-text index has recorded, one entry per indexed row. *)

\* the largest rowid a row of chunks gets
MaxRowid == 4

\* SQLite's rowid of a new row of chunks: one more than the largest in use
nextRowid(rowids) == IF rowids = <<>> THEN 1 ELSE rowids[Len(rowids)] + 1

\* the rowids a statement reads from chunks_fts when it is no MATCH (SELECT
\* COUNT(*), SELECT rowid, DELETE ... WHERE rowid = ?): the table is declared
\* with content='chunks' (lines 568-572), so FTS5 reads its rows from chunks
shadowScan(rowids) == {rowids[i] : i \in 1 .. Len(rowids)}

\* trigger chunks_fts_insert (lines 575-577): the new row is indexed
ftsInsert(index, rowid, content) == index \cup {[rowid |-> rowid, content |-> content]}

\* trigger chunks_fts_delete (lines 583-585), AFTER DELETE ON chunks:
\* DELETE FROM chunks_fts WHERE rowid = old.rowid removes the entries of the
\* rows the statement finds, reading chunks as it is after the delete
ftsDelete(index, rowidsLeft, old) ==
    {e \in index : ~(e.rowid \in old /\ e.rowid \in shadowScan(rowidsLeft))}

\* lines 613-640; ok: the INSERT ... SELECT does not fail
rebuildFTSIndex(index, rows, rowids, ok) ==
    LET count == Cardinality(shadowScan(rowids))
        chunksCount == Len(rows)
        missing == {i \in 1 .. Len(rows) : rowids[i] \notin shadowScan(rowids)}
    IN  IF count > 0 /\ count = chunksCount THEN index
        ELSE IF ~ok THEN index
        ELSE index \cup {[rowid |-> rowids[i], content |-> rows[i].content] : i \in missing}

\* the rowids of the rows deleteChunksOf keeps
RECURSIVE keptRowids(_, _, _)
keptRowids(rows, rowids, id) ==
    IF rows = <<>> THEN <<>>
    ELSE IF Head(rows).document_id = id THEN keptRowids(Tail(rows), Tail(rowids), id)
         ELSE <<Head(rowids)>> \o keptRowids(Tail(rows), Tail(rowids), id)

\* the variables the three operations leave alone
shadowRest == <<clientVars, tx, sessions, dbLock, cacheMutex, callerDeadline, args, ret>>

\* lines 510-530: the process starts on the database file as it is, built
\* with or without the FTS5 module; initSchema creates what does not exist
\* and, with FTS5, calls rebuildFTSIndex, whose error is logged only
NewSQLiteDocumentRepository(fts5, ok) ==
    /\ fts5Enabled' = fts5
    /\ chunks_fts' = IF fts5
                     THEN [chunks_fts EXCEPT
                              !.exists = TRUE,
                              !.index = rebuildFTSIndex(chunks_fts.index, chunks,
                                                        chunks_fts.rowid, ok)]
                     ELSE chunks_fts
    /\ repoLog' = [NoLog EXCEPT !.op = "open"]
    /\ UNCHANGED <<docs, chunks, shadowRest>>

\* lines 643-685, a SaveDocument that returns nil: the document row and the
\* rows of its fragments are committed; every inserted fragment fires the
\* insert trigger when the triggers exist
SaveDocumentDone(doc) ==
    LET parts == splitIntoChunks(doc.Content, ChunkSize)
        first == nextRowid(chunks_fts.rowid)
    IN  /\ ~HasKey(docs, doc.ID)
        /\ chunks_fts.exists => fts5Enabled
        /\ first + Len(parts) - 1 <= MaxRowid
        /\ docs' = insertRow(docs, DocRow(doc))
        /\ chunks' = chunks \o [i \in 1 .. Len(parts) |-> ChunkRow(doc.ID, i - 1, parts[i])]
        /\ chunks_fts' =
              [chunks_fts EXCEPT
                  !.rowid = @ \o [i \in 1 .. Len(parts) |-> first + i - 1],
                  !.index = IF chunks_fts.exists
                            THEN @ \cup {[rowid |-> first + i - 1, content |-> parts[i]] :
                                             i \in 1 .. Len(parts)}
                            ELSE @]
        /\ repoLog' = [op |-> "save", doc |-> doc, err |-> "nil", rows |-> Len(parts)]
        /\ UNCHANGED <<fts5Enabled, shadowRest>>

\* a DeleteDocument that returns nil: the fragments and the document row are
\* gone; every deleted fragment fires the delete trigger when the triggers
\* exist
DeleteDocumentDone(id) ==
    LET rowidsLeft == keptRowids(chunks, chunks_fts.rowid, id)
        old == shadowScan(chunks_fts.rowid) \ shadowScan(rowidsLeft)
    IN  /\ chunks_fts.exists => fts5Enabled
        /\ docs' = deleteDocument(docs, id)
        /\ chunks' = deleteChunksOf(chunks, id)
        /\ chunks_fts' =
              [chunks_fts EXCEPT
                  !.rowid = rowidsLeft,
                  !.index = IF chunks_fts.exists THEN ftsDelete(@, rowidsLeft, old) ELSE @]
        /\ repoLog' = [NoLog EXCEPT !.op = "delete", !.rows = Len(chunks) - Len(chunks')]
        /\ UNCHANGED <<fts5Enabled, shadowRest>>

NextShadow ==
    \/ \E fts5 \in BOOLEAN, ok \in BOOLEAN : NewSQLiteDocumentRepository(fts5, ok)
    \/ \E doc \in Documents : SaveDocumentDone(doc)
    \/ \E id \in DocIDs : DeleteDocumentDone(id)

----------------------------------------------------------------------------
(* Specifications *)

Init == InitClient /\ InitRepo /\ InitOther

\* the generation client and its cache
Spec == Init /\ [][Next]_vars

\* one call on an empty cache; its goroutine keeps running and every attempt
\* returns (the http.Client has a timeout and every request a deadline,
\* lines 300-303)
NextTerm ==
    \/ \E in \in Inputs : GenStart(in)
    \/ CallStep

SpecTerm == Init /\ [][NextTerm]_vars /\ WF_vars(CallStep)

\* the document repository
InitRepoSpec == Init /\ baseURLOk = TRUE

SpecRepo == InitRepoSpec /\ [][NextRepo]_vars

\* SaveDocument called by concurrent goroutines on one repository
InitConc ==
    /\ InitClient
    /\ InitRepo
    /\ baseURLOk = TRUE
    /\ sessions = [c \in Callers |-> NoSession]
    /\ dbLock = "none"
    /\ cacheMutex = NoLock
    /\ chunks_fts = NoIndex
    /\ callerDeadline = 0
    /\ args = NoCall
    /\ ret = NoCall

SpecConc == InitConc /\ [][NextConc]_vars

\* FindRelevantChunks called on a store
InitFind ==
    /\ InitClient
    /\ baseURLOk = TRUE
    /\ fts5Enabled \in BOOLEAN
    /\ \E texts \in Stores : docs = storeDocs(texts) /\ chunks = storeChunks(texts)
    /\ tx = NoTx
    /\ repoLog = NoLog
    /\ InitOther

SpecFind == InitFind /\ [][NextFind]_vars

\* BuildPrompt and the fingerprint as functions of their arguments
SpecPrompt == InitRepoSpec /\ [][NextPrompt]_vars

\* NewAIClient as a function of the file and the environment
SpecNew == InitRepoSpec /\ [][NextNew]_vars

\* GenerateResponse called by a caller with a deadline
InitDeadline ==
    /\ InitClient
    /\ InitRepo
    /\ sessions = NoSessions
    /\ dbLock = "none"
    /\ cacheMutex = NoLock
    /\ chunks_fts = NoIndex
    /\ callerDeadline \in Deadlines
    /\ args = NoCall
    /\ ret = NoCall

SpecDeadline == InitDeadline /\ [][NextDeadline]_vars

\* the cache operations called by concurrent goroutines
InitCacheLock ==
    /\ InitClient
    /\ InitRepo
    /\ baseURLOk = TRUE
    /\ fts5Enabled = TRUE
    /\ sessions = [g \in Goroutines |-> NoGoroutine]
    /\ dbLock = "none"
    /\ cacheMutex = NoLock
    /\ chunks_fts = NoIndex
    /\ callerDeadline = 0
    /\ args = NoCall
    /\ ret = NoCall

SpecCacheLock == InitCacheLock /\ [][NextCacheLock]_vars

\* a repository constructed on a new database file
InitShadow ==
    /\ InitClient
    /\ InitRepo
    /\ baseURLOk = TRUE
    /\ sessions = NoSessions
    /\ dbLock = "none"
    /\ cacheMutex = NoLock
    /\ chunks_fts = [NoIndex EXCEPT !.exists = fts5Enabled]
    /\ callerDeadline = 0
    /\ args = NoCall
    /\ ret = NoCall

SpecShadow == InitShadow /\ [][NextShadow]_vars

\* splitIntoChunks as a function of its arguments
SpecSplit == InitRepoSpec /\ [][NextSplit]_vars

SpecKey == InitRepoSpec /\ [][NextKey]_vars

\* sanitizeInput as a function of its arguments
SpecSanitize == InitRepoSpec /\ [][NextSanitize]_vars

\* the request context of the attempts of one call
SpecAttempt == InitRepoSpec /\ [][NextAttempt]_vars

----------------------------------------------------------------------------
(* Properties of the generation client and its cache *)

Last(seq) == seq[Len(seq)]

\* the outcomes of an attempt after which the client may try again
Retryable == {"429", "5xx", "transport", "parse"}

ParseErrors == {"invalid JSON", "JSON parse", "API error", "no choices", "empty content"}

\* the error GenerateResponse reports for an attempt that ended the call
ErrorsOfKind(kind) ==
    CASE kind = "transport" -> {"transport"}
      [] kind = "read" -> {"read"}
      [] kind = "parse" -> ParseErrors
      [] kind = "429" -> {"HTTP 429 after all attempts"}
      [] kind = "5xx" -> {"HTTP 5xx after all attempts"}
      [] kind = "other" -> {"HTTP API error"}

WriteCuts == 0 .. MaxContentLen + 1

Failed == pc = "done" /\ result.err # "nil"

\* C1: on a cache miss, k retryable outcomes (429, >= 500, transport error,
\* 200 with an unparseable body), 0 <= k <= maxRetries, do not end the call,
\* and a following 200 with a parseable non-empty answer makes it return that
\* answer with no error and a recorded retry count of k; after 429, 429, 200
\* the retry count is 2.  (For every k the answer is a non-empty trimmed
\* content, the one handed to the cache; that it is the content of this very
\* body is compared body by body in the case 429, 429, 200.)
C1_RetryThenSuccess ==
    [][ /\ (pc = "attempt" /\ pc' = "done" /\ Last(trace') = "ok") =>
              /\ Len(trace) \in 0 .. maxRetries
              /\ result'.err = "nil"
              /\ result'.answer \in {TrimSpace(c) : c \in Contents} \ {<<>>}
              /\ saves' = <<[key |-> cacheKey, value |-> result'.answer, ok |-> saves'[1].ok]>>
              /\ metrics' = [Retries |-> Len(trace), FromCache |-> FALSE, Error |-> "nil"]
              /\ trace = <<"429", "429">> => metrics'.Retries = 2
              /\ trace = <<"429", "429">> =>
                  \A c \in Contents :
                    TrimSpace(c) # result'.answer =>
                        ~ \E wr \in WriteCuts :
                            Resp200([json |-> "ok", errMsg |-> FALSE, choices |-> <<c>>],
                                    saves'[1].ok, wr)
        /\ (/\ Len(trace) \in 1 .. maxRetries
            /\ \A i \in 1 .. Len(trace) : trace[i] \in Retryable)
               => /\ pc \in {"loop", "attempt"}
                  /\ pc = "loop" => attempt = Len(trace)
      ]_vars

C1_Witness ==
    /\ pc = "done"
    /\ trace = <<"429", "429", "ok">>
    /\ metrics.Retries = 2
    /\ result = [answer |-> <<"a">>, err |-> "nil"]

\* C2 as stated: with a retry budget of 3, the third consecutive HTTP 500
\* ends the call in a terminal server error and no further attempt is made.
C2_ThreeServerErrorsEnd ==
    trace = <<"5xx", "5xx", "5xx">> => Failed

\* C2: with maxRetries = 3 the call makes up to four attempts: after the third
\* consecutive HTTP 500 a fourth attempt is made, and the fourth consecutive
\* 500 ends the call in a terminal server error with no further attempt.
C2_FourServerErrorsEnd ==
    /\ trace = <<"5xx", "5xx", "5xx">> => pc \in {"loop", "attempt"}
    /\ trace = <<"5xx", "5xx", "5xx", "5xx">> =>
          /\ Failed
          /\ result = [answer |-> <<>>, err |-> "HTTP 5xx after all attempts"]
          /\ metrics.Retries = maxRetries
    /\ Len(trace) <= maxRetries + 1

C2_Witness ==
    /\ trace = <<"5xx", "5xx", "5xx", "5xx">>
    /\ Failed

\* C3: a status below 500 other than 200 and 429 ends the call at once in a
\* terminal failure, whatever budget remains: it is always the last attempt,
\* and when it is the first response the retry count is 0.
C3_ClientErrorEnds ==
    /\ \A i \in 1 .. Len(trace) : trace[i] = "other" => i = Len(trace)
    /\ (trace # <<>> /\ Last(trace) = "other") =>
          /\ Failed
          /\ result = [answer |-> <<>>, err |-> "HTTP API error"]
          /\ metrics.Retries = Len(trace) - 1
          /\ attempt = Len(trace) - 1
    /\ trace = <<"other">> => metrics.Retries = 0

C3_Witness ==
    /\ trace = <<"5xx", "other">>
    /\ Failed
    /\ attempt < maxRetries

\* C4: a call that ends in a terminal failure returns an empty answer and
\* the error classified for its last attempt, and leaves the cache as it was;
\* a cache entry is written only by the step that ends the call in success,
\* under the call's fingerprint.
C4_FailureLeavesCache ==
    [][ /\ (pc # "done" /\ pc' = "done" /\ result'.err # "nil") =>
              /\ result'.answer = <<>>
              /\ metrics'.Error = result'.err
              /\ IF trace' = <<>> THEN result'.err = "request"
                 ELSE result'.err \in ErrorsOfKind(Last(trace'))
              /\ cache' = cache
              /\ saves' = <<>>
        /\ \A k \in Keys :
              (cache'[k] # cache[k] /\ cache'[k].exists) =>
                  /\ pc = "attempt" /\ pc' = "done"
                  /\ result'.err = "nil"
                  /\ k = cacheKey
                  /\ Last(trace') = "ok"
      ]_vars

C4_Witness ==
    /\ Failed
    /\ trace = <<"429", "other">>
    /\ \E k \in Keys : cache[k].exists
    /\ saves = <<>>

\* C5: when the cache holds an entry (a file with non-blank content) for the
\* fingerprint of the sanitized query and the fragments, GenerateResponse
\* returns the cached answer with the cache-hit flag set, makes no remote
\* attempt and sleeps no backoff.
C5_CacheHit ==
    [][ (pc = "idle" /\ pc' # "idle") =>
          \A in \in Inputs :
            (/\ GenStart(in)
             /\ cache[keyData(sanitizeInput(in.query, MaxQueryLen), in.chunks)].exists
             /\ TrimSpace(cache[keyData(sanitizeInput(in.query, MaxQueryLen), in.chunks)].data) # <<>>)
            => /\ pc' = "done"
               /\ result' = [answer |->
                     TrimSpace(cache[keyData(sanitizeInput(in.query, MaxQueryLen), in.chunks)].data),
                     err |-> "nil"]
               /\ metrics'.FromCache
               /\ metrics'.Retries = 0
               /\ trace' = <<>>
               /\ slept' = <<>>
               /\ cache' = cache
      ]_vars

C5_Witness ==
    /\ pc = "done"
    /\ metrics.FromCache
    /\ result = [answer |-> <<"a", "a">>, err |-> "nil"]
    /\ trace = <<>>
    /\ slept = <<>>

\* C6: right after a successful put(k, v), get(k) returns exactly v; an entry
\* that get finds stays as it is until the cache is cleared; and a call whose
\* fingerprint has such an entry returns the entry's value, so that a call that
\* succeeded and saved its answer is answered the same from the cache later.
C6_CacheRoundTrip ==
    [][ /\ (pc = "attempt" /\ pc' = "done" /\ cacheOp'.op = "put" /\ cacheOp'.err = "nil") =>
              /\ saves' = <<[key |-> cacheKey, value |-> result'.answer, ok |-> TRUE]>>
              /\ cache'[cacheKey].exists
              /\ TrimSpace(cache'[cacheKey].data) = result'.answer
              /\ getCachedResponse(cache', cacheKey) = [response |-> result'.answer, found |-> TRUE]
        /\ \A k \in Keys :
              (cache[k].exists /\ TrimSpace(cache[k].data) # <<>> /\ cacheOp'.op # "clear")
                  => cache'[k] = cache[k]
        /\ (pc = "idle" /\ pc' # "idle") =>
              \A in \in Inputs :
                (/\ GenStart(in)
                 /\ getCachedResponse(cache, keyData(query', in.chunks)).found)
                => /\ result'.answer = getCachedResponse(cache, keyData(query', in.chunks)).response
                   /\ result'.err = "nil"
                   /\ metrics'.FromCache
      ]_vars

C6_Witness ==
    /\ pc = "done"
    /\ metrics.FromCache
    /\ cacheKey = keyData(<<"a">>, <<chunkB>>)
    /\ cache[cacheKey] = File(result.answer)
    /\ \E k \in Keys : k # cacheKey /\ cache[k].exists

\* C7: a failing cache write never fails the call: when the remote call
\* succeeded and saving the answer returned an error, GenerateResponse still
\* returns the answer with no error.
C7_SaveFailureAbsorbed ==
    (pc = "done" /\ saves # <<>> /\ ~saves[1].ok) =>
        /\ Len(saves) = 1
        /\ result = [answer |-> saves[1].value, err |-> "nil"]
        /\ result.answer # <<>>
        /\ Last(trace) = "ok"
        /\ metrics.Error = "nil"

C7_Witness ==
    /\ pc = "done"
    /\ saves # <<>>
    /\ ~saves[1].ok
    /\ cache[cacheKey] # File(result.answer)
    /\ result = [answer |-> <<"a", "a">>, err |-> "nil"]

\* C8 as stated: after clear(), get(k) returns nothing for every key, and
\* clear() returns no error.
C8_ClearEmptiesCache ==
    cacheOp.op = "clear" =>
        /\ cacheOp.err = "nil"
        /\ \A k \in Keys : ~getCachedResponse(cache, k).found

\* C8: clear() returns no error in every case, an empty cache included; after
\* a clear() in which no removal failed, get(k) returns nothing for every key;
\* the entries whose removal failed, and only those, are still there.
C8_ClearRemovesWhatItCan ==
    cacheOp.op = "clear" =>
        /\ cacheOp.err = "nil"
        /\ cacheOp.failed = 0 =>
              \A k \in Keys : ~cache[k].exists /\ ~getCachedResponse(cache, k).found
        /\ Cardinality({k \in Keys : cache[k].exists}) = cacheOp.failed

\* the call has just stored its answer, and the clear that followed removed it
C8_Witness ==
    /\ cacheOp = [op |-> "clear", failed |-> 0, err |-> "nil"]
    /\ pc = "done"
    /\ saves = <<[key |-> cacheKey, value |-> result.answer, ok |-> TRUE]>>
    /\ \A k \in Keys : ~getCachedResponse(cache, k).found

----------------------------------------------------------------------------
(* Properties of the document repository *)

\* the positions at which GetAllDocuments returns a document with this id
Returned(id) ==
    {i \in 1 .. Len(GetAllDocuments(docs)) : GetAllDocuments(docs)[i].ID = id}

\* C9: after a successful save, getAll returns the saved document (its id,
\* title and content) exactly once; after a successful delete of an id,
\* getAll does not return a document of that id and findRelevant with the
\* empty query returns none of its fragments, for every limit and threshold
\* and in both ranking modes.
C9_SaveGetAllDelete ==
    /\ (repoLog.op = "save" /\ repoLog.err = "nil") =>
          /\ Cardinality(Returned(repoLog.doc.ID)) = 1
          /\ \A i \in Returned(repoLog.doc.ID) :
                /\ GetAllDocuments(docs)[i].Title = repoLog.doc.Title
                /\ GetAllDocuments(docs)[i].Content = repoLog.doc.Content
    /\ (repoLog.op = "delete" /\ repoLog.err = "nil") =>
          /\ Returned(repoLog.doc.ID) = {}
          /\ \A limit \in Limits, threshold \in Thresholds :
                \A j \in 1 .. Len(findRelevantEmpty(fts5Enabled, chunks, limit, threshold)) :
                    findRelevantEmpty(fts5Enabled, chunks, limit, threshold)[j].DocumentID
                        # repoLog.doc.ID

\* a document with two fragments has been deleted and another one, which
\* findRelevant("") still returns, is left
C9_Witness ==
    /\ repoLog.op = "delete"
    /\ repoLog.err = "nil"
    /\ repoLog.rows = 2
    /\ Cardinality(Returned(repoLog.doc.ID)) = 0
    /\ Len(GetAllDocuments(docs)) = 1
    /\ fts5Enabled
    /\ Len(findRelevantEmpty(fts5Enabled, chunks, 10, 5)) = 2

\* C10: in every reachable state, whatever saves and deletes succeeded or
\* failed before, every stored fragment's parent document is stored, in the
\* committed tables and in the tables as the open transaction sees them; a
\* successful delete leaves neither the document nor a fragment of it.
C10_FragmentHasParent ==
    /\ \A i \in 1 .. Len(chunks) :
          \E j \in 1 .. Len(docs) : docs[j].id = chunks[i].document_id
    /\ tx.op # "none" =>
          \A i \in 1 .. Len(tx.wchunks) :
              \E j \in 1 .. Len(tx.wdocs) : tx.wdocs[j].id = tx.wchunks[i].document_id
    /\ (repoLog.op = "delete" /\ repoLog.err = "nil") =>
          /\ \A j \in 1 .. Len(docs) : docs[j].id # repoLog.doc.ID
          /\ \A i \in 1 .. Len(chunks) : chunks[i].document_id # repoLog.doc.ID

\* two documents and their three fragments are stored, a delete of one of
\* them has just failed, and the next operation is under way
C10_Witness ==
    /\ Len(docs) = 2
    /\ Len(chunks) = 3
    /\ repoLog.op = "delete"
    /\ repoLog.err = "delete document"
    /\ tx.op = "save"

\* the rows SaveDocument writes for a document's fragments (lines 663-677)
fragmentRows(doc) ==
    LET parts == splitIntoChunks(doc.Content, ChunkSize)
    IN  [i \in 1 .. Len(parts) |-> ChunkRow(doc.ID, i - 1, parts[i])]

\* C11: save is all-or-nothing.  What getAll and findRelevant read is the
\* committed tables: every step of a save leaves them unchanged, and a save
\* that ends there ends with an error, except the one step of the successful
\* commit, which adds the document's row and exactly the rows of the
\* chunker's fragments of its content, all at once.
C11_SaveAllOrNothing ==
    [][tx.op = "save" =>
          \/ /\ UNCHANGED <<docs, chunks>>
             /\ tx'.op = "none" => (repoLog'.op = "save" /\ repoLog'.err # "nil")
          \/ /\ tx'.op = "none"
             /\ repoLog' = [op |-> "save", doc |-> tx.doc, err |-> "nil",
                            rows |-> Len(fragmentRows(tx.doc))]
             /\ docs' = Append(docs, DocRow(tx.doc))
             /\ chunks' = chunks \o fragmentRows(tx.doc)]_vars

\* a save of a two-fragment document has failed at the insert of a fragment,
\* after the document row was inserted, and nothing of it is stored beside
\* the one-fragment document saved before
C11_Witness ==
    /\ repoLog.op = "save"
    /\ repoLog.err = "insert chunk"
    /\ repoLog.doc.Content = LongText
    /\ tx.op = "none"
    /\ Len(docs) = 1
    /\ docs[1].id # repoLog.doc.ID
    /\ Len(chunks) = 1

\* the rows of a table that belong to a document, in table order
RECURSIVE rowsOf(_, _)
rowsOf(rows, id) ==
    IF rows = <<>> THEN <<>>
    ELSE IF Head(rows).document_id = id THEN <<Head(rows)>> \o rowsOf(Tail(rows), id)
         ELSE rowsOf(Tail(rows), id)

NotStored(drows, crows, id) ==
    /\ \A i \in 1 .. Len(drows) : drows[i].id # id
    /\ \A i \in 1 .. Len(crows) : crows[i].document_id # id

\* C13: a delete of an id that is not stored changes no stored document and
\* no stored fragment at any of its steps, its statements and its commit go
\* through when the database does not fail them, and it then returns no
\* error; a successful delete leaves the id not stored, so that a second
\* delete of the same id is such a delete and changes nothing.
C13_DeleteAbsent ==
    [][tx.op = "delete" =>
          /\ NotStored(docs, chunks, tx.doc.ID) =>
                /\ UNCHANGED <<docs, chunks>>
                /\ (DeleteChunks(TRUE) \/ DeleteDoc(TRUE)) =>
                        (tx'.op = "delete" /\ tx'.wdocs = docs /\ tx'.wchunks = chunks)
                /\ DeleteCommit(TRUE) =>
                        repoLog' = [op |-> "delete", doc |-> tx.doc, err |-> "nil",
                                    rows |-> 0]
          /\ (tx'.op = "none" /\ repoLog'.err = "nil") =>
                NotStored(docs', chunks', tx.doc.ID)]_vars

\* the second delete of an id, after the first one succeeded and removed two
\* fragments, has run both its statements and is about to commit; another
\* document and its fragment are stored
C13_Witness ==
    /\ repoLog.op = "delete"
    /\ repoLog.err = "nil"
    /\ repoLog.rows = 2
    /\ tx.op = "delete"
    /\ tx.step = "commit"
    /\ tx.doc.ID = repoLog.doc.ID
    /\ NotStored(docs, chunks, tx.doc.ID)
    /\ tx.wdocs = docs
    /\ tx.wchunks = chunks
    /\ Len(docs) = 1
    /\ Len(chunks) = 1

\* C14: for every query, limit > 0 and threshold, in both ranking modes,
\* findRelevant returns at most limit fragments, every returned fragment has
\* a similarity of at least the threshold when the threshold is positive,
\* and a threshold of zero or less filters nothing: the result is then what
\* any other such threshold gives.
C14_LimitAndThreshold ==
    (ret.fn = "FindRelevantChunks" /\ args.limit > 0) =>
        /\ Len(ret.chunks) <= args.limit
        /\ args.threshold > 0 =>
              \A i \in 1 .. Len(ret.chunks) :
                  10 * ret.chunks[i].Similarity.num
                      >= args.threshold * ret.chunks[i].Similarity.den
        /\ (args.threshold <= 0 /\ ret.err = "nil") =>
              \A t \in {u \in Thresholds : u <= 0} :
                  ret.chunks = findRelevant(fts5Enabled, chunks, args.ranks,
                                            args.query, args.limit, t)

\* with the extension, a query of two words, limit 1 and threshold 1.0 has
\* returned the better ranked of two matching fragments
C14_Witness ==
    /\ ret.fn = "FindRelevantChunks"
    /\ fts5Enabled
    /\ args.query = <<"b", " ", " ", "a">>
    /\ args.limit = 1
    /\ args.threshold = 10
    /\ Len(chunks) = 2
    /\ args.ranks = <<-1, -3>>
    /\ Len(ret.chunks) = 1
    /\ ret.chunks[1].ID = chunks[2].id

\* C15: for a fixed store, query, limit and raw scores, a higher threshold
\* never returns more: for thresholds t1 <= t2 the result of t2 has at most
\* as many fragments as the result of t1, and each of its fragments is one
\* of the result of t1.
C15_ThresholdMonotone ==
    (ret.fn = "FindRelevantChunks" /\ ret.err = "nil") =>
        \A t2 \in Thresholds :
            args.threshold <= t2 =>
                LET more == findRelevant(fts5Enabled, chunks, args.ranks, args.query,
                                         args.limit, t2)
                IN  /\ Len(more) <= Len(ret.chunks)
                    /\ \A i \in 1 .. Len(more) :
                           \E j \in 1 .. Len(ret.chunks) : ret.chunks[j] = more[i]

\* without the extension, the query "A b" with threshold 0.5 has returned
\* two fragments, one matching both words and one matching one of them,
\* of which a threshold of 0.6 keeps one
C15_Witness ==
    /\ ret.fn = "FindRelevantChunks"
    /\ ~fts5Enabled
    /\ args.query = <<"A", " ", "b">>
    /\ args.threshold = 5
    /\ Len(ret.chunks) = 2
    /\ ret.chunks[1].Similarity = Frac(2, 2)
    /\ ret.chunks[2].Similarity = Frac(1, 2)
    /\ Len(findRelevant(fts5Enabled, chunks, args.ranks, args.query, args.limit, 6)) = 1

\* the fragments joined in order
RECURSIVE Concat(_)
Concat(parts) == IF parts = <<>> THEN <<>> ELSE Head(parts) \o Concat(Tail(parts))

\* C16: for every text and chunk size >= 1, the fragments of splitIntoChunks
\* joined in order are the text, and no fragment is longer than the chunk
\* size.
C16_SplitPartitions ==
    (ret.fn = "splitIntoChunks" /\ args.chunkSize >= 1) =>
        /\ Concat(ret.chunks) = args.text
        /\ \A i \in 1 .. Len(ret.chunks) : Len(ret.chunks[i]) <= args.chunkSize

\* a text of four characters has been cut into three fragments, the first
\* of them ending in front of a space and shorter than the chunk size
C16_Witness ==
    /\ ret.fn = "splitIntoChunks"
    /\ args.text = <<"a", " ", "a", "a">>
    /\ args.chunkSize = 2
    /\ ret.chunks = << <<"a">>, <<" ", "a">>, <<"a">> >>

\* C17 as stated: splitIntoChunks("A cat sat on a mat.", 6) is
\* ["A cat ", "sat on ", "a mat."].
C17_ClaimedFragments ==
    (ret.fn = "splitIntoChunks" /\ args.text = Sentence /\ args.chunkSize = SentenceSize) =>
        ret.chunks = << <<"A", " ", "c", "a", "t", " ">>,
                        <<"s", "a", "t", " ", "o", "n", " ">>,
                        <<"a", " ", "m", "a", "t", ".">> >>

\* C17: splitIntoChunks("A cat sat on a mat.", 6) is
\* ["A cat", " sat", " on a", " mat."]: every cut is in front of the last
\* space among the first seven characters of the remaining text.
C17_Fragments ==
    (ret.fn = "splitIntoChunks" /\ args.text = Sentence /\ args.chunkSize = SentenceSize) =>
        ret.chunks = << <<"A", " ", "c", "a", "t">>,
                        <<" ", "s", "a", "t">>,
                        <<" ", "o", "n", " ", "a">>,
                        <<" ", "m", "a", "t", ".">> >>

\* the sentence has been split with chunk size 6 into four fragments
C17_Witness ==
    /\ ret.fn = "splitIntoChunks"
    /\ args.text = Sentence
    /\ args.chunkSize = SentenceSize
    /\ Len(ret.chunks) = 4

C19_PlaceholderRejected ==
    ret.fn = "NewAIClient" =>
        /\ args.env.AI_API_KEY \in {"", Placeholder} =>
              (ret.err # "nil" /\ ret.client = NoClient)
        /\ ret.err = "nil" =>
              (ret.client.exists /\ ret.client.config.APIKey = args.env.AI_API_KEY)

\* C20 as stated: an attempt of GenerateResponse is under way only while the
\* caller's deadline has not elapsed, the backoff slept before it being
\* shorter than the deadline, and its network timeout is not longer than
\* the deadline.
C20_DeadlineHonoured ==
    pc = "attempt" =>
        /\ backoffTotal(attempt) < callerDeadline
        /\ attemptTimeout(callerDeadline) <= callerDeadline

\* C21 as stated: a put in progress never blocks a put for another key: a
\* goroutine that arrived at the lock of saveCachedResponse while a put for
\* a different key holds it is granted the lock.
C21_DifferentKeysDoNotContend ==
    \A g \in Goroutines, h \in Goroutines :
        (/\ sessions[g].op = "put"
         /\ sessions[g].step \in {"create", "write", "unlock"}
         /\ sessions[h].op = "put"
         /\ sessions[h].step = "lock"
         /\ sessions[h].key # sessions[g].key) => canLock(h)

C23_CallTerminates ==
    /\ [](Len(trace) <= maxRetries + 1)
    /\ [](Len(trace) = maxRetries + 1 => pc = "done")
    /\ [](pc = "done" => \/ result.err = "nil" /\ result.answer # <<>>
                         \/ result.err # "nil" /\ result.answer = <<>>)
    /\ (pc \in {"loop", "attempt"}) ~> (pc = "done")

\* a call has returned a terminal failure after four attempts with four
\* different retryable outcomes
C23_Witness ==
    /\ pc = "done"
    /\ trace = <<"transport", "429", "parse", "read">>
    /\ result.err = "read"
    /\ result.answer = <<>>

\* the seconds of a sequence of sleeps
RECURSIVE sleptSecs(_)
sleptSecs(evs) == IF evs = <<>> THEN 0 ELSE Head(evs).secs + sleptSecs(Tail(evs))

\* C24: when attempt k >= 1 starts, the client has slept since the failure
\* of attempt k-1 the backoff retryDelay * 2^(k-1) (2, 4, 8 seconds for
\* k = 1, 2, 3) and, before it, the seconds of Retry-After when attempt k-1
\* ended with a 429 whose header gives seconds: the two are added; after any
\* other outcome, or a 429 without such a header, the backoff is all.
C24_BackoffPlusRetryAfter ==
    [][ /\ (pc = "loop" /\ pc' = "attempt" /\ attempt >= 1) =>
              /\ attempt = Len(trace)
              /\ slept' = Append(slept, SleepEv("backoff", retryDelay * Pow2(attempt - 1)))
              /\ Last(slept').secs = <<2, 4, 8>>[attempt]
              /\ slept # <<>> => Last(trace) = "429"
              /\ sleptSecs(slept') \in
                    {Last(slept').secs} \cup
                    {Last(slept').secs + RetryAfterSecs(h) :
                        h \in {x \in RetryAfters : RetryAfterParses(x)}}
        /\ \A h \in RetryAfters :
              (Resp429(h) /\ pc' = "loop") =>
                  slept' = IF RetryAfterParses(h)
                           THEN <<SleepEv("retry-after", RetryAfterSecs(h))>>
                           ELSE <<>>
        /\ (pc = "attempt" /\ pc' = "loop" /\ Last(trace') # "429") => slept' = <<>>
      ]_vars

\* the fourth attempt starts after a 429 with Retry-After: 1: the client has
\* slept 1 second and then the backoff of 8 seconds
C24_Witness ==
    /\ pc = "attempt"
    /\ attempt = 3
    /\ trace = <<"5xx", "transport", "429">>
    /\ slept = <<SleepEv("retry-after", 1), SleepEv("backoff", 8)>>

\* C25 as stated: no delay is slept after the last permitted attempt: a call
\* that has returned after maxRetries + 1 attempts has not slept since the
\* response of the last one.
C25_NoSleepAfterFinalAttempt ==
    (pc = "done" /\ Len(trace) = maxRetries + 1) => slept = <<>>

\* the bodies that give no answer: not JSON or JSON of another shape, an
\* error message, no choice, or a first choice of white space only
NoAnswerBodies ==
    {b \in Bodies : \/ b.json # "ok"
                    \/ b.errMsg
                    \/ b.choices = <<>>
                    \/ TrimSpace(b.choices[1]) = <<>>}

\* the errors parseAIResponse returns for them
NoAnswerErrors == {parseAIResponse(b).err : b \in NoAnswerBodies}

\* the answers parseAIResponse returns for the other bodies
Answers == {parseAIResponse(b).content : b \in Bodies \ NoAnswerBodies}

\* C26: an HTTP 200 whose body gives no answer is never a success: its
\* attempt is retried while attempt < maxRetries and ends the call with the
\* parse error as the terminal error when the budget is used up; nothing is
\* returned as an answer and nothing is written to the cache.  (A call that
\* succeeds returns, and saves, the answer of a body that has one.)
C26_BadBodyRetriedNeverCached ==
    [][ (pc = "attempt" /\ pc' # "attempt") =>
          /\ "nil" \notin NoAnswerErrors
          /\ Last(trace') = "ok" =>
                /\ result'.answer \in Answers \ {<<>>}
                /\ Last(saves').value = result'.answer
          /\ Last(trace') = "parse" =>
                /\ \E b \in NoAnswerBodies : Resp200Bad(b)
                /\ cache' = cache
                /\ saves' = saves
                /\ cacheOp'.op # "put"
                /\ result'.answer = <<>>
                /\ IF attempt < maxRetries
                   THEN /\ pc' = "loop"
                        /\ attempt' = attempt + 1
                        /\ result' = NoResult
                   ELSE /\ pc' = "done"
                        /\ result'.err \in NoAnswerErrors
                        /\ metrics'.Error = result'.err
      ]_vars

\* a call whose four attempts all got an HTTP 200 without an answer has
\* ended with the parse error, and the cache holds no entry
C26_Witness ==
    /\ pc = "done"
    /\ trace = <<"parse", "parse", "parse", "parse">>
    /\ result.answer = <<>>
    /\ result.err # "nil"
    /\ saves = <<>>
    /\ \A k \in Keys : cache[k] = NoFile

\* the goroutines inside getCachedResponse with the read lock
Reading == {g \in Goroutines : sessions[g].op = "get" /\ sessions[g].step \in {"read", "runlock"}}

\* the goroutines inside saveCachedResponse or ClearCache with the lock
Writing ==
    {g \in Goroutines : sessions[g].step \in {"create", "write", "unlock", "glob", "remove"}}

\* a file as one put leaves it
Complete == {File(v) : v \in PutValues}

C28_EmptyQuerySameInBothModes ==
    (ret.fn = "FindRelevantChunks" /\ args.dbOk /\ TrimSpace(args.query) = <<>>) =>
        /\ \A i, j \in 1 .. Len(ret.chunks) :
                ret.chunks[i].Similarity = ret.chunks[j].Similarity
        /\ Len(ret.chunks) =
               Len(findRelevant(~fts5Enabled, chunks, args.ranks, args.query,
                                args.limit, args.threshold))

\* the query words, lower case, that occur in the content, each once
termsFound(q, content) ==
    {w \in {Fields(ToLower(q))[k] : k \in 1 .. Len(Fields(ToLower(q)))} :
        Contains(ToLower(content), w)}

\* the number of words of a list that occur in the content, a word that
\* stands twice in the list counted twice
RECURSIVE wordsFound(_, _)
wordsFound(words, content) ==
    IF words = <<>> THEN 0
    ELSE (IF Contains(ToLower(content), Head(words)) THEN 1 ELSE 0)
         + wordsFound(Tail(words), content)

\* the fragments a call without the extension returned for a query with words
LikeResult ==
    /\ ret.fn = "FindRelevantChunks"
    /\ ret.err = "nil"
    /\ ~fts5Enabled
    /\ Fields(args.query) # <<>>

\* C29 as stated: without the extension, for a query of n >= 1 words the
\* similarity of a fragment is the number of distinct query words found in
\* its content divided by n, a repeated word counted once.
C29_DistinctTermsOverN ==
    LikeResult =>
        \A i \in 1 .. Len(ret.chunks) :
            ret.chunks[i].Similarity.num * Len(Fields(args.query)) =
                Cardinality(termsFound(args.query, ret.chunks[i].Content))
                    * ret.chunks[i].Similarity.den

\* C29: without the extension, for a query of n >= 1 words the similarity of
\* a fragment is m / n, m the number of the n words that, lower case, are a
\* substring of the lower-case content, a word that stands k times in the
\* query counted k times; it lies in [0, 1], and for a query whose words
\* differ it is the number of distinct words found divided by n.
C29_TermOccurrencesOverN ==
    LikeResult =>
        \A i \in 1 .. Len(ret.chunks) :
            LET words == Fields(ToLower(args.query))
                sim == ret.chunks[i].Similarity
                content == ret.chunks[i].Content
            IN  /\ sim.den = Len(words)
                /\ sim.num = wordsFound(words, content)
                /\ 0 <= sim.num /\ sim.num <= sim.den
                /\ (\A j, k \in 1 .. Len(words) : words[j] = words[k] => j = k) =>
                       sim.num = Cardinality(termsFound(args.query, content))

\* the query "a A" on a fragment "a": both words are found, the similarity
\* is 2/2, while one distinct word is found
C29_Witness ==
    /\ LikeResult
    /\ args.query = <<"a", " ", "A">>
    /\ Len(ret.chunks) >= 1
    /\ ret.chunks[1].Content = <<"a">>
    /\ ret.chunks[1].Similarity = Frac(2, 2)
    /\ Cardinality(termsFound(args.query, ret.chunks[1].Content)) = 1

\* the raw score of the row a returned fragment was read from
rawScore(c) == args.ranks[CHOOSE k \in 1 .. Len(chunks) : chunks[k].id = c.ID]

\* the fragments a call with the extension returned for a query with words
\* the extension accepts
Fts5Result ==
    /\ ret.fn = "FindRelevantChunks"
    /\ ret.err = "nil"
    /\ fts5Enabled
    /\ formatFTS5Query(args.query) # <<>>
    /\ ftsWellFormed(formatFTS5Query(args.query))

\* what the same call returns with the threshold 0: every fetched row
fetchedRows ==
    findRelevant(fts5Enabled, chunks, args.ranks, args.query, args.limit, 0)

C31_TermsWithoutNul ==
    ret.fn = "FindRelevantChunks" =>
        \A terms \in {matchTerms(fts5Enabled, args.query), Fields(ToLower(args.query))} :
            \A k \in 1 .. Len(terms) :
                \A i \in 1 .. Len(terms[k]) : terms[k][i] # NUL

\* the text that remains when fragment i of the result is cut
RECURSIVE remaining(_)
remaining(i) ==
    IF i = 1 THEN args.text
    ELSE SubSeq(remaining(i - 1), Len(ret.chunks[i - 1]) + 1, Len(remaining(i - 1)))

\* C32: for a chunk size >= 1, while the remaining text is longer than the
\* chunk size the next fragment ends at the largest index p (Go index, from
\* 0) with 1 <= p <= chunkSize at which a break character stands, and has
\* exactly chunkSize characters when there is none; every fragment is
\* non-empty, so every cut shortens the remaining text, and the remaining
\* text that fits is the last fragment.
C32_CutAtLastBreak ==
    (ret.fn = "splitIntoChunks" /\ args.chunkSize >= 1) =>
        /\ Len(ret.chunks) <= Len(args.text)
        /\ remaining(Len(ret.chunks) + 1) = <<>>
        /\ \A i \in 1 .. Len(ret.chunks) :
              LET rest == remaining(i)
                  breaks == {p \in 1 .. args.chunkSize :
                                p + 1 <= Len(rest) /\ isBreakPoint(rest[p + 1])}
              IN  /\ Len(ret.chunks[i]) >= 1
                  /\ ret.chunks[i] = Prefix(rest, Len(ret.chunks[i]))
                  /\ Len(rest) <= args.chunkSize => ret.chunks[i] = rest
                  /\ Len(rest) > args.chunkSize =>
                        /\ Len(remaining(i + 1)) < Len(rest)
                        /\ breaks = {} => Len(ret.chunks[i]) = args.chunkSize
                        /\ breaks # {} =>
                              /\ Len(ret.chunks[i]) \in breaks
                              /\ \A p \in breaks : p <= Len(ret.chunks[i])

\* the text "a a " has been cut with chunk size 3 in front of its last space,
\* not in front of its first
C32_Witness ==
    /\ ret.fn = "splitIntoChunks"
    /\ args.text = <<"a", " ", "a", " ">>
    /\ args.chunkSize = 3
    /\ ret.chunks = << <<"a", " ", "a">>, <<" ">> >>

\* C33 as stated: with the extension, after construction and after any
\* sequence of successful save and delete calls, the full-text index holds
\* exactly one entry per stored fragment: none missing, none orphaned.
C33_ShadowIndexInSync ==
    fts5Enabled =>
        chunks_fts.index =
            {[rowid |-> chunks_fts.rowid[i], content |-> chunks[i].content] :
                i \in 1 .. Len(chunks)}

\* the first KeyPrefixLen bytes of a content
keyPrefix(content) == Prefix(content, min(KeyPrefixLen, Len(content)))

\* two fragment lists with the same identities in the same order and
\* contents that agree on their first 100 bytes
sameToKey(cs, ds) ==
    /\ Len(cs) = Len(ds)
    /\ \A i \in 1 .. Len(cs) :
          /\ cs[i].ID = ds[i].ID
          /\ keyPrefix(cs[i].Content) = keyPrefix(ds[i].Content)

\* C34: every call with the same sanitized query and a fragment list with
\* the same identities in the same order and contents agreeing on their
\* first 100 bytes gets the fingerprint of this call, whatever the contents
\* hold beyond the 100th byte.
C34_KeyOfPrefixes ==
    ret.fn = "getCacheKey" =>
        \A in \in KeyInputs :
            (/\ sanitizeInput(in.query, MaxQueryLen) = ret.query
             /\ sameToKey(in.chunks, args.chunks)) =>
                fingerprint(in.query, in.chunks) = ret.key

\* a call with one fragment of 101 bytes has the fingerprint of the call
\* whose query has a leading space more and whose fragment differs in the
\* 101st byte
C34_Witness ==
    /\ ret.fn = "getCacheKey"
    /\ args.query = <<"a">>
    /\ args.chunks = <<[ID |-> <<"b">>, Content |-> LongContent("x", "a")]>>
    /\ ret.key = fingerprint(<<" ", "a">>,
                             <<[ID |-> <<"b">>, Content |-> LongContent("x", "b")]>>)
    /\ LongContent("x", "a") # LongContent("x", "b")

\* C37 as stated: the byte string that is hashed determines its inputs: a
\* call that differs from this one in the sanitized query, in a fragment
\* identity, in the order of the fragments or within the first 100 bytes of
\* a content hashes another byte string.
C37_KeyDataInjective ==
    ret.fn = "getCacheKey" =>
        \A in \in KeyInputs :
            (\/ sanitizeInput(in.query, MaxQueryLen) # ret.query
             \/ ~sameToKey(in.chunks, args.chunks)) =>
                keyData(sanitizeInput(in.query, MaxQueryLen), in.chunks) # ret.key

\* the stored row of document id and the stored fragments of it
storedOf(id) ==
    <<SelectSeq(docs, LAMBDA row : row.id = id), rowsOf(chunks, id)>>

\* C35: a stored document changes through delete only.  In every step, a
\* save of a document whose id is already stored never gets past the insert
\* of the document row, ends with an error, and leaves the stored documents
\* and fragments as they were; and every stored document keeps its row and
\* its fragments in every step other than the commit of a delete of it.
C35_StoredChangesByDeleteOnly ==
    [][/\ (tx.op = "save" /\ HasKey(docs, tx.doc.ID)) =>
            /\ tx'.step # "chunks"
            /\ tx'.op = "none" => (repoLog'.op = "save" /\ repoLog'.err # "nil")
            /\ docs' = docs
            /\ chunks' = chunks
       /\ \A id \in DocIDs :
            HasKey(docs, id) =>
                \/ storedOf(id)' = storedOf(id)
                \/ /\ tx.op = "delete"
                   /\ tx.doc.ID = id
                   /\ storedOf(id)' = <<(<<>>), (<<>>)>>]_vars

\* a save of a stored id with another content has failed at the insert of the
\* document row; the stored document has its two fragments and a second
\* document is stored
C35_Witness ==
    /\ repoLog.op = "save"
    /\ repoLog.err = "insert document"
    /\ tx.op = "none"
    /\ Len(docs) = 2
    /\ \E i \in 1 .. Len(docs) :
          /\ docs[i].id = repoLog.doc.ID
          /\ docs[i].content # repoLog.doc.Content
    /\ Len(rowsOf(chunks, repoLog.doc.ID)) = 2


\* a non-empty string without white space at either end
trimmed(s) == s # <<>> /\ ~IsSpace(s[1]) /\ ~IsSpace(s[Len(s)])

\* C36: every returned call, served from the cache or by the service, has
\* one of two outcomes: no error and a non-empty answer without white space
\* at either end, or an error and the empty answer.
C36_AnswerXorError ==
    pc = "done" =>
        /\ (result.err = "nil") <=> trimmed(result.answer)
        /\ (result.err # "nil") <=> (result.answer = <<>>)

\* a call found the blank cache file that a failed write had left, took it
\* for a miss, and returned the error of its only attempt
C36_Witness ==
    /\ pc = "done"
    /\ cache[cacheKey] = File(<<>>)
    /\ ~metrics.FromCache
    /\ Len(trace) = 1
    /\ result.err # "nil"
    /\ result.answer = <<>>

\* C38 as stated: sanitizing is idempotent and trims fully: sanitizing a
\* sanitized value with the same cap returns it unchanged, and every
\* sanitized value has no null byte, no white space at either end and at
\* most as many bytes as the cap.
C38_SanitizeIdempotentTrimmed ==
    ret.fn = "sanitizeInput" =>
        /\ args.again => ret.out = args.input
        /\ \A i \in 1 .. Len(ret.out) : ret.out[i] # NUL
        /\ ret.out = <<>> \/ trimmed(ret.out)
        /\ Len(ret.out) <= args.maxLength


\* C39 as stated: in every attempt the context with the timeout is live
\* until the body of the response has been read completely: the body is
\* read under a live context, and no body read of a response that arrived
\* in time fails with the client's own cancellation.
C39_ContextLiveUntilBodyRead ==
    /\ (args.fn = "attempt" /\ args.at = "ReadAll") => args.ctx = "live"
    /\ ret.fn = "attempt" => ret.err # "context canceled"


\* what the same call returns without a limit and with the threshold 0:
\* every candidate row, in the order the store returns the rows
allCandidates ==
    findRelevant(fts5Enabled, chunks, args.ranks, args.query, -1, 0)

chunkIDs(cs) == [i \in 1 .. Len(cs) |-> cs[i].ID]

reaches(c, threshold) ==
    threshold <= 0 \/ 10 * c.Similarity.num >= threshold * c.Similarity.den

\* the stored rows that match a word of the query, in table order; every
\* row for a query without words
likeCandidates ==
    SelectSeq(chunks, LAMBDA row :
        \/ Fields(args.query) = <<>>
        \/ \E k \in 1 .. Len(Fields(args.query)) :
               likeMatch(row.content, Fields(args.query)[k]))

\* C40: in both modes the store applies the limit to the candidate rows and
\* the threshold filter runs on the rows fetched: the fetched rows are the
\* first limit candidates (without the extension: the rows matching a query
\* word, in table order), and the result is exactly the subsequence of the
\* fetched rows whose similarity reaches the threshold.
C40_LimitBeforeThreshold ==
    (ret.fn = "FindRelevantChunks" /\ ret.err = "nil") =>
        /\ chunkIDs(fetchedRows) = chunkIDs(limitRows(allCandidates, args.limit))
        /\ ret.chunks = SelectSeq(fetchedRows, LAMBDA c : reaches(c, args.threshold))
        /\ ~fts5Enabled =>
              chunkIDs(allCandidates) =
                  [i \in 1 .. Len(likeCandidates) |-> likeCandidates[i].id]

\* without the extension, the query "A b" with limit 1 and threshold 0.6 has
\* returned nothing: the one fetched row, "B", has 0.5, and the second
\* candidate, "a b", which reaches the threshold, was cut by the limit
C40_Witness ==
    /\ ret.fn = "FindRelevantChunks"
    /\ ret.err = "nil"
    /\ ~fts5Enabled
    /\ args.query = <<"A", " ", "b">>
    /\ args.limit = 1
    /\ args.threshold = 6
    /\ Len(chunks) = 2
    /\ chunks[1].content = <<"B">>
    /\ chunks[2].content = <<"a", " ", "b">>
    /\ ret.chunks = <<>>
    /\ Len(SelectSeq(allCandidates, LAMBDA c : reaches(c, args.threshold))) >= args.limit


====
